---- MODULE Spec2Model ----
(***************************************************************************)
(* Model of the search-instruction compiler of cph-svr:                    *)
(*   src/src/utils/pipeline_builder.ts  (ParserPipeline)                   *)
(*   src/src/utils/parser.ts            (InstructionParser)                *)
(*   src/src/models/instruction.model.ts (the instruction store)           *)
(*                                                                         *)
(* A JavaScript string is modelled as a sequence of characters, each       *)
(* character being a one-character TLA+ string (accented letters, which    *)
(* are not \w in a JavaScript regular expression, are written as named     *)
(* atoms such as "i_acute").  Every regular expression of the source is    *)
(* modelled by an operator that decides the same language on sequences.    *)
(***************************************************************************)
EXTENDS Integers, Sequences, FiniteSets, TLC

(***************************************************************************)
(* Characters and elementary string operations                             *)
(***************************************************************************)
UpperSeq == <<"A","B","C","D","E","F","G","H","I","J","K","L","M",
              "N","O","P","Q","R","S","T","U","V","W","X","Y","Z">>

LowerSeq == <<"a","b","c","d","e","f","g","h","i","j","k","l","m",
              "n","o","p","q","r","s","t","u","v","w","x","y","z">>

DigitSeq == <<"0","1","2","3","4","5","6","7","8","9">>

Upper == {UpperSeq[i] : i \in 1..26}

Lower == {LowerSeq[i] : i \in 1..26}

Digit == {DigitSeq[i] : i \in 1..10}

\* \w of a JavaScript regular expression without the u flag
WordChar == Upper \cup Lower \cup Digit \cup {"_"}

\* [A-Z0-9]
UpperAlnum == Upper \cup Digit

\* \s restricted to the blank, the only white space the inputs contain
IsSpace(c) == c = " "

\* String.prototype.toLowerCase on one character
LowerChar(c) ==
    IF c \in Upper THEN LowerSeq[CHOOSE i \in 1..26 : UpperSeq[i] = c] ELSE c

\* String.prototype.toLowerCase
toLowerCase(s) == [i \in 1..Len(s) |-> LowerChar(s[i])]

\* String.prototype.slice(from) with a 0-based index, written 1-based
Drop(s, n) == SubSeq(s, n + 1, Len(s))

Take(s, n) == SubSeq(s, 1, n)

\* String.prototype.startsWith for a one-character prefix
startsWith(s, c) == Len(s) >= 1 /\ s[1] = c

\* String.prototype.includes for one character
includes(s, c) == \E i \in 1..Len(s) : s[i] = c

\* String.prototype.trim
RECURSIVE trimStart(_)
trimStart(s) ==
    IF Len(s) >= 1 /\ IsSpace(s[1]) THEN trimStart(Tail(s)) ELSE s

RECURSIVE trimEnd(_)
trimEnd(s) ==
    IF Len(s) >= 1 /\ IsSpace(s[Len(s)]) THEN trimEnd(Take(s, Len(s) - 1)) ELSE s

trim(s) == trimEnd(trimStart(s))

\* Array.prototype.join(" ")
RECURSIVE joinSpace(_)
joinSpace(ss) ==
    IF Len(ss) = 0 THEN <<>>
    ELSE IF Len(ss) = 1 THEN ss[1]
    ELSE ss[1] \o <<" ">> \o joinSpace(Tail(ss))

\* String.prototype.padStart(width, "0")
RECURSIVE padStart(_, _)
padStart(s, width) ==
    IF Len(s) >= width THEN s ELSE padStart(<<"0">> \o s, width)

\* length of the longest prefix of s made of characters of the class cls
RECURSIVE RunLen(_, _)
RunLen(s, cls) ==
    IF Len(s) >= 1 /\ s[1] \in cls THEN 1 + RunLen(Tail(s), cls) ELSE 0

AllIn(s, cls) == \A i \in 1..Len(s) : s[i] \in cls

\* index of the first occurrence of c in s, 0 when there is none
FirstIndex(s, c) ==
    IF includes(s, c) THEN CHOOSE i \in 1..Len(s) : s[i] = c /\ \A j \in 1..(i-1) : s[j] # c
    ELSE 0

\* the value JavaScript gives to a missing property or capture
undefined == <<>>

\* the null a compilation step returns for "no match"
NULL == [kind |-> "null"]


(***************************************************************************)
(* ParserPipeline: tokenizer (pipeline_builder.ts 103-143)                 *)
(***************************************************************************)
DQ == "\""

SQ == "'"

\* length of a match of  \w+:Q[^Q]+Q  at the start of s, 0 when it fails
QuotedRunLen(s, q) ==
    LET k == RunLen(s, WordChar)
        rest == Drop(s, k + 2)
        m == RunLen(rest, {rest[i] : i \in 1..Len(rest)} \ {q})
    IN  IF /\ k >= 1
           /\ Len(s) >= k + 4
           /\ s[k + 1] = ":"
           /\ s[k + 2] = q
           /\ m >= 1
           /\ Len(rest) > m
        THEN k + 2 + m + 1
        ELSE 0

\* length of a match of \S+ at the start of s
NonSpaceRunLen(s) == RunLen(s, {s[i] : i \in 1..Len(s)} \ {" "})

\* input.match(/\w+:"[^"]+"|\w+:'[^']+'|\S+/g) || []
RECURSIVE matchParts(_)
matchParts(input) ==
    LET s == trimStart(input)
        n == IF QuotedRunLen(s, DQ) > 0 THEN QuotedRunLen(s, DQ)
             ELSE IF QuotedRunLen(s, SQ) > 0 THEN QuotedRunLen(s, SQ)
             ELSE NonSpaceRunLen(s)
    IN  IF Len(s) = 0 THEN <<>>
        ELSE <<Take(s, n)>> \o matchParts(Drop(s, n))

ReservedBracketWords ==
    { <<"i","t","e","m">>, <<"i","t","e","m","s">>,
      <<"k","e","y">>, <<"k","e","y","s">>,
      <<"b","r","a","n","d">>, <<"b","r","a","n","d","s">>,
      <<"l","i","n","e">>, <<"l","i","n","e","s">>,
      <<"a","c","c">> }

\* /^\[(ITEMS?|KEYS?|BRANDS?|BRAND|LINES?|ACC)\]/i.test(val)
startsWithReservedBracket(val) ==
    /\ startsWith(val, "[")
    /\ \E w \in ReservedBracketWords :
          /\ Len(val) >= Len(w) + 2
          /\ toLowerCase(SubSeq(val, 2, Len(w) + 1)) = w
          /\ val[Len(w) + 2] = "]"

\* /^[A-Z0-9]{lo,hi}$/.test(val)
IsUpperAlnum(val, lo, hi) == Len(val) >= lo /\ Len(val) <= hi /\ AllIn(val, UpperAlnum)

\* /\[.+\]/.test(val)
hasBracketBlock(val) ==
    \E i \in 1..Len(val) : \E j \in 1..Len(val) :
        val[i] = "[" /\ val[j] = "]" /\ j >= i + 2

isLikelyDynamic(val) ==
    IF startsWithReservedBracket(val) THEN FALSE
    ELSE IF IsUpperAlnum(val, 5, 6) \/ IsUpperAlnum(val, 3, 3) \/ IsUpperAlnum(val, 2, 3)
         THEN TRUE
         ELSE includes(val, ":") \/ hasBracketBlock(val)

\* the token string without the exclusion marker
makeTokenStrUnmarked(val, exclude) == val

\* line 124: the token string, which is the cache key: exclude ? `-${val}` : val
makeTokenStr(val, exclude) == IF exclude THEN <<"-">> \o val ELSE val

\* the loop body of tokenizeInput, folded over the parts
RECURSIVE tokenizeParts(_, _, _)
tokenizeParts(parts, tokens, desc) ==
    IF Len(parts) = 0 THEN [tokens |-> tokens, desc |-> toLowerCase(trim(desc))]
    ELSE
      LET part == parts[1]
          exclude == startsWith(part, "-")
          val == IF exclude THEN Drop(part, 1) ELSE part
      IN  IF startsWithReservedBracket(val)
          THEN tokenizeParts(Tail(parts), tokens, desc \o part \o <<" ">>)
          ELSE IF isLikelyDynamic(val)
          THEN tokenizeParts(Tail(parts),
                   Append(tokens, [tokenStr |-> makeTokenStr(val, exclude), exclude |-> exclude]),
                   desc)
          ELSE tokenizeParts(Tail(parts), tokens, desc \o part \o <<" ">>)

tokenizeInput(input) == tokenizeParts(matchParts(input), <<>>, <<>>)

(***************************************************************************)
(* ParserPipeline: field resolution (pipeline_builder.ts 146-151, 594-619) *)
(***************************************************************************)
determineField(value) ==
    IF IsUpperAlnum(value, 5, 6) THEN "keys"
    ELSE IF IsUpperAlnum(value, 3, 3) THEN "lines"
    ELSE IF IsUpperAlnum(value, 2, 3) THEN "brands"
    ELSE "items"

aliasPairs ==
    { <<<<"k","e","y">>, "keys">>,
      <<<<"k","e","y","s">>, "keys">>,
      <<<<"i","t","e","m">>, "items">>,
      <<<<"i","t","e","m","s">>, "items">>,
      <<<<"b","r","a","n","d">>, "brands">>,
      <<<<"b","r","a","n","d","s">>, "brands">>,
      <<<<"l","i","n","e">>, "lines">>,
      <<<<"l","i","n","e","s">>, "lines">>,
      <<<<"c","l","a","v","e">>, "keys">>,
      <<<<"c","l","a","v","e","s">>, "keys">>,
      <<<<"i_acute","t","e","m">>, "items">>,
      <<<<"i_acute","t","e","m","s">>, "items">>,
      <<<<"a","r","t","i_acute","c","u","l","o">>, "items">>,
      <<<<"a","r","t","i","c","u","l","o">>, "items">>,
      <<<<"a","r","t","i_acute","c","u","l","o","s">>, "items">>,
      <<<<"a","r","t","i","c","u","l","o","s">>, "items">>,
      <<<<"p","r","o","d","u","c","t","o">>, "items">>,
      <<<<"p","r","o","d","u","c","t","o","s">>, "items">>,
      <<<<"l","i_acute","n","e","a">>, "lines">>,
      <<<<"l","i","n","e","a">>, "lines">>,
      <<<<"l","i_acute","n","e","a","s">>, "lines">>,
      <<<<"l","i","n","e","a","s">>, "lines">>,
      <<<<"m","a","r","c","a">>, "brands">>,
      <<<<"m","a","r","c","a","s">>, "brands">>
    }

\* the field a property read of the alias map yields when there is none
NoField == "undefined"

\* this.aliasMap[alias]
aliasMap(alias) ==
    IF \E p \in aliasPairs : p[1] = alias
    THEN (CHOOSE p \in aliasPairs : p[1] = alias)[2]
    ELSE NoField

\* tokenStr.match(/^(\w+):["'](.+)["']$/): <<alias, value>> or NULL
fieldMatchQuoted(s) ==
    LET k == RunLen(s, WordChar)
    IN  IF /\ k >= 1
           /\ Len(s) >= k + 4
           /\ s[k + 1] = ":"
           /\ s[k + 2] \in {DQ, SQ}
           /\ s[Len(s)] \in {DQ, SQ}
        THEN [alias |-> Take(s, k), value |-> SubSeq(s, k + 3, Len(s) - 1)]
        ELSE NULL

\* tokenStr.match(/^(\w+):(.+)$/): <<alias, value>> or NULL
fieldMatch(s) ==
    LET k == RunLen(s, WordChar)
    IN  IF k >= 1 /\ Len(s) >= k + 2 /\ s[k + 1] = ":"
        THEN [alias |-> Take(s, k), value |-> Drop(s, k + 1)]
        ELSE NULL

\* body.match(/^\[([^\]]+)\](.+)$/): <<keyPrefix, rest>> or NULL
prefixMatch(body) ==
    LET j == FirstIndex(body, "]")
    IN  IF startsWith(body, "[") /\ j >= 3 /\ Len(body) > j
        THEN [keyPrefix |-> SubSeq(body, 2, j - 1), rest |-> Drop(body, j)]
        ELSE NULL

\* no token has the form alias:[content]
aliasBracketMatchNever(s) == NULL

\* tokenStr.match(/^\w+:\[([^\]]+)\]$/): the bracket content or NULL
aliasBracketMatch(s) ==
    LET k == RunLen(s, WordChar)
        j == FirstIndex(s, "]")
    IN  IF /\ k >= 1
           /\ Len(s) >= k + 4
           /\ s[k + 1] = ":"
           /\ s[k + 2] = "["
           /\ j = Len(s)
        THEN [content |-> SubSeq(s, k + 3, Len(s) - 1)]
        ELSE NULL

(***************************************************************************)
(* Pattern classification shared by both parsers                           *)
(***************************************************************************)
\* the program's padding width: `if (val.length < 4) val = val.padStart(4, "0")`
PadWidth == 4

\* value.match(/^([><]=?)(.+)$/) and value.match(/^(>=|<=|>|<)(.+)$/):
\* both take the two-character operator when a value is left after it
compMatch(body) ==
    IF Len(body) >= 3 /\ body[1] \in {">", "<"} /\ body[2] = "="
    THEN [operator |-> Take(body, 2), value |-> Drop(body, 2)]
    ELSE IF Len(body) >= 2 /\ body[1] \in {">", "<"}
    THEN [operator |-> Take(body, 1), value |-> Drop(body, 1)]
    ELSE NULL

\* positions k of a "<>" in body with something before and something after
RangeSeps(body) ==
    {k \in 2..(Len(body) - 2) : body[k] = "<" /\ body[k + 1] = ">"}

\* value.match(/^(.+)<>(.+)$/): the first group is greedy, so the last "<>"
rangeMatch(body) ==
    IF RangeSeps(body) = {} THEN NULL
    ELSE LET k == CHOOSE x \in RangeSeps(body) : \A y \in RangeSeps(body) : y <= x
         IN  [start |-> Take(body, k - 1), end |-> Drop(body, k + 1)]

\* the padding step of parseSingleToken (268, 284, 285) and of
\* parseComparison / parseRange (635-637, 684-689)
padBound(val) == IF Len(val) < PadWidth THEN padStart(val, PadWidth) ELSE val

\* /^".+"$/.test(body) for the quote character q
isWrappedIn(body, q) == Len(body) >= 3 /\ body[1] = q /\ body[Len(body)] = q

\* /[*^$]/.test(body) || /^".+"$/.test(body) || /^'.+'$/.test(body)
isRegexBody(body) ==
    \/ \E i \in 1..Len(body) : body[i] \in {"*", "^", "$"}
    \/ isWrappedIn(body, DQ)
    \/ isWrappedIn(body, SQ)

\* s.replace(/^q|q$/g, "")
stripQuote(s, q) ==
    LET s1 == IF startsWith(s, q) THEN Tail(s) ELSE s
    IN  IF Len(s1) >= 1 /\ s1[Len(s1)] = q THEN Take(s1, Len(s1) - 1) ELSE s1

\* body.replace(/^"|"$/g, "").replace(/^'|'$/g, "")
stripQuotes(body) == stripQuote(stripQuote(body, DQ), SQ)

(***************************************************************************)
(* ParserPipeline.parseSingleToken (pipeline_builder.ts 189-314)           *)
(* A keyPrefix property that is absent or undefined is the field           *)
(* keyPrefix = undefined; the code only ever tests it for truthiness.      *)
(* The extractedValue property is present only where the code sets it,     *)
(* because buildItemsExpr tests `"extractedValue" in pd`.                  *)
(***************************************************************************)
\* /^([><]=?\d+)$/.test(e)
isNumericComparison(e) ==
    /\ Len(e) >= 2
    /\ e[1] \in {">", "<"}
    /\ LET rest == IF e[2] = "=" THEN Drop(e, 2) ELSE Drop(e, 1)
       IN  Len(rest) >= 1 /\ AllIn(rest, Digit)

\* /^\d+<>\d+$/.test(e)
isNumericRange(e) ==
    \E k \in 2..(Len(e) - 2) :
        /\ e[k] = "<"
        /\ e[k + 1] = ">"
        /\ AllIn(Take(e, k - 1), Digit)
        /\ AllIn(Drop(e, k + 1), Digit)

\* /^\d{1,4}$/.test(e)
isShortNumber(e) == Len(e) >= 1 /\ Len(e) <= 4 /\ AllIn(e, Digit)

\* /[*^$\\.+?]/.test(e)
hasRegexMeta(e) == \E i \in 1..Len(e) : e[i] \in {"*", "^", "$", "\\", ".", "+", "?"}

\* lines 192-211: the field and the token body after the alias
resolveAlias(tokenStr) ==
    LET q == fieldMatchQuoted(tokenStr)
        m == fieldMatch(tokenStr)
        r == IF q # NULL
             THEN [field |-> aliasMap(toLowerCase(q.alias)), tokenBody |-> q.value]
             ELSE IF m # NULL /\ aliasMap(toLowerCase(m.alias)) # NoField
             THEN [field |-> aliasMap(toLowerCase(m.alias)), tokenBody |-> m.value]
             ELSE [field |-> NoField, tokenBody |-> tokenStr]
    IN  IF r.field = NoField
        THEN [field |-> determineField(r.tokenBody), tokenBody |-> r.tokenBody]
        ELSE r

\* lines 257-313: comparison, range, regex, value
classifyBody(field, keyPrefix, tokenBody) ==
    LET c == compMatch(tokenBody)
        r == rangeMatch(tokenBody)
        literal == stripQuotes(tokenBody)
    IN  IF c # NULL
        THEN [field |-> field,
              patternData |-> [patternType |-> "comparison", keyPrefix |-> keyPrefix,
                               operator |-> c.operator, value |-> padBound(c.value)]]
        ELSE IF r # NULL
        THEN [field |-> field,
              patternData |-> [patternType |-> "range", keyPrefix |-> keyPrefix,
                               start |-> padBound(r.start), end |-> padBound(r.end)]]
        ELSE IF isRegexBody(tokenBody)
        THEN [field |-> field,
              patternData |-> [patternType |-> "regex", keyPrefix |-> keyPrefix,
                               value |-> stripQuotes(tokenBody)]]
        ELSE IF field = "keys" /\ ~IsUpperAlnum(literal, 5, 6) THEN NULL
        ELSE IF field = "items" /\ ~isShortNumber(literal) THEN NULL
        ELSE [field |-> field,
              patternData |-> [patternType |-> "value", keyPrefix |-> keyPrefix,
                               value |-> literal]]

parseSingleToken(tokenStr) ==
    LET ra == resolveAlias(tokenStr)
        field == ra.field
        tokenBody == ra.tokenBody
        pm == prefixMatch(tokenBody)
        ab == aliasBracketMatch(tokenStr)
    IN  IF field # "items" /\ pm # NULL
        THEN [field |-> field,
              patternData |-> [patternType |-> "regex", keyPrefix |-> undefined,
                               value |-> tokenBody]]
        ELSE IF field \in {"brands", "lines", "keys"} /\ ab # NULL
        THEN [field |-> field,
              patternData |-> [patternType |-> "regex", keyPrefix |-> undefined,
                               value |-> ab.content]]
        ELSE IF pm # NULL
        THEN IF field # "items" THEN NULL
             ELSE IF \/ isNumericComparison(pm.rest)
                     \/ isNumericRange(pm.rest)
                     \/ isShortNumber(pm.rest)
             THEN classifyBody(field, pm.keyPrefix, pm.rest)
             ELSE IF hasRegexMeta(pm.rest)
             THEN [field |-> field,
                   patternData |-> [patternType |-> "regex", keyPrefix |-> undefined,
                                    value |-> tokenStr, extractedValue |-> pm.rest]]
             ELSE NULL
        ELSE classifyBody(field, undefined, tokenBody)

(***************************************************************************)
(* InstructionParser.extractPatterns (parser.ts 446-499, 601-729)          *)
(***************************************************************************)
\* /^(>=|<=|>|<).+/.test(value)
isComparisonPattern(value) == Len(value) >= 2 /\ value[1] \in {">", "<"}

\* parseComparison without the padding step
parseComparisonUnpadded(value) ==
    LET m == compMatch(value)
    IN  IF m # NULL THEN [operator |-> m.operator, value |-> m.value] ELSE NULL

\* lines 620-642
parseComparison(value) ==
    LET m == compMatch(value)
    IN  IF m # NULL THEN [operator |-> m.operator, value |-> padBound(m.value)] ELSE NULL

\* /^.+<>.+$/.test(value)
isRangePattern(value) == RangeSeps(value) # {}

parseRange(value) ==
    LET m == rangeMatch(value)
    IN  IF m # NULL THEN [start |-> padBound(m.start), end |-> padBound(m.end)] ELSE NULL

isRegexPattern(value) == isRegexBody(value)

parseRegex(value) == stripQuotes(value)

\* the patterns extractPatterns pushes (a sequence of zero or one pattern)
extractPatterns(value) ==
    LET km == prefixMatch(value)
        keyPrefix == IF km # NULL THEN km.keyPrefix ELSE undefined
        patternValue == IF km # NULL THEN km.rest ELSE value
    IN  IF isComparisonPattern(patternValue)
        THEN LET comparison == parseComparison(patternValue)
             IN  IF comparison # NULL
                 THEN << [type |-> "comparison", operator |-> comparison.operator,
                          value |-> comparison.value, keyPrefix |-> keyPrefix] >>
                 ELSE <<>>
        ELSE IF isRangePattern(patternValue)
        THEN LET range == parseRange(patternValue)
             IN  IF range # NULL
                 THEN << [type |-> "range", start |-> range.start, end |-> range.end,
                          keyPrefix |-> keyPrefix] >>
                 ELSE <<>>
        ELSE IF isRegexPattern(patternValue)
        THEN << [type |-> "regex", value |-> parseRegex(patternValue),
                 keyPrefix |-> keyPrefix] >>
        ELSE << [type |-> "value", value |-> stripQuotes(patternValue),
                 keyPrefix |-> keyPrefix] >>

(***************************************************************************)
(* ParserPipeline: construction of the match stage                         *)
(* (pipeline_builder.ts 319-592).  A filter object is a record:            *)
(*   {$match: Q} is [match |-> Q],  {$nor: [Q]} is [nor |-> <<Q>>],        *)
(*   {$expr: E} is [expr |-> E],    {} is [empty |-> TRUE];                *)
(* an expression E is [op, input, value], [op, input, regex, options] or   *)
(* [op |-> "$and", args]; an input is [path |-> p] or [concat |-> paths].  *)
(***************************************************************************)
CodePath == [path |-> "$code"]

KeyConcat == [concat |-> <<"$key.line.code", "$key.brand.code">>]

FullConcat == [concat |-> <<"$key.line.code", "$key.brand.code", "$code">>]

mapOperator(op) ==
    IF op = <<">">> THEN "$gt"
    ELSE IF op = <<"<">> THEN "$lt"
    ELSE IF op = <<">", "=">> THEN "$gte"
    ELSE IF op = <<"<", "=">> THEN "$lte"
    ELSE "$eq"

CmpExpr(op, input, value) == [op |-> op, input |-> input, value |-> value]

RegexExpr(input, regex) ==
    [op |-> "$regexMatch", input |-> input, regex |-> regex, options |-> "i"]

AndExpr(args) == [op |-> "$and", args |-> args]

patternDataToPattern(pd) ==
    IF pd.patternType = "comparison"
    THEN [type |-> "comparison", operator |-> pd.operator, value |-> pd.value,
          keyPrefix |-> pd.keyPrefix]
    ELSE IF pd.patternType = "range"
    THEN [type |-> "range", start |-> pd.start, end |-> pd.end, keyPrefix |-> pd.keyPrefix]
    ELSE IF pd.patternType = "regex"
    THEN [type |-> "regex", value |-> pd.value, keyPrefix |-> pd.keyPrefix]
    ELSE [type |-> "value", value |-> pd.value, keyPrefix |-> pd.keyPrefix]

buildExprWithoutPrefix(pattern, isItemFull) ==
    LET input == IF isItemFull THEN FullConcat ELSE KeyConcat
    IN  IF pattern.type = "value"
        THEN [expr |-> CmpExpr("$eq", input, pattern.value)]
        ELSE IF pattern.type = "regex"
        THEN [expr |-> RegexExpr(input, pattern.value)]
        ELSE IF pattern.type = "comparison"
        THEN [expr |-> CmpExpr(mapOperator(pattern.operator), input, pattern.value)]
        ELSE IF pattern.type = "range"
        THEN [expr |-> AndExpr(<< CmpExpr("$gte", input, pattern.start),
                                  CmpExpr("$lte", input, pattern.end) >>)]
        ELSE NULL

buildSingleFieldExpr(pd, path) ==
    IF pd.patternType = "comparison"
    THEN [expr |-> CmpExpr(mapOperator(pd.operator), [path |-> path], pd.value)]
    ELSE IF pd.patternType = "range"
    THEN [expr |-> AndExpr(<< CmpExpr("$gte", [path |-> path], pd.start),
                              CmpExpr("$lte", [path |-> path], pd.end) >>)]
    ELSE IF pd.patternType = "regex"
    THEN [expr |-> RegexExpr([path |-> path], pd.value)]
    ELSE IF pd.patternType = "value"
    THEN [expr |-> CmpExpr("$eq", [path |-> path], pd.value)]
    ELSE [empty |-> TRUE]

combinePrefixWithCode(prefixExpr, pd, codeField) ==
    IF pd.patternType = "regex"
    THEN [expr |-> AndExpr(<< prefixExpr.expr, RegexExpr([path |-> codeField], pd.value) >>)]
    ELSE IF pd.patternType = "value"
    THEN [expr |-> AndExpr(<< prefixExpr.expr, CmpExpr("$eq", [path |-> codeField], pd.value) >>)]
    ELSE [empty |-> TRUE]

\* lines 415-433: the switch of buildItemsExpr for a pattern without keyPrefix
buildItemsExprNoPrefix(pd) ==
    IF pd.patternType = "comparison"
    THEN [expr |-> CmpExpr(mapOperator(pd.operator), CodePath, pd.value)]
    ELSE IF pd.patternType = "range"
    THEN [expr |-> AndExpr(<< CmpExpr("$gte", CodePath, pd.start),
                              CmpExpr("$lte", CodePath, pd.end) >>)]
    ELSE IF pd.patternType \in {"regex", "value"}
    THEN buildExprWithoutPrefix(patternDataToPattern(pd), TRUE)
    ELSE [empty |-> TRUE]

buildItemsExpr(pd) ==
    LET prefixExpr == [expr |-> RegexExpr(KeyConcat, pd.keyPrefix)]
    IN  IF "extractedValue" \in DOMAIN pd
        THEN [match |-> [expr |-> RegexExpr(CodePath, pd.extractedValue)]]
        ELSE IF pd.keyPrefix # undefined
        THEN IF pd.patternType = "comparison"
             THEN [expr |-> AndExpr(<< prefixExpr.expr,
                                       CmpExpr(mapOperator(pd.operator), CodePath, pd.value) >>)]
             ELSE IF pd.patternType = "range"
             THEN [expr |-> AndExpr(<< prefixExpr.expr,
                                       CmpExpr("$gte", CodePath, pd.start),
                                       CmpExpr("$lte", CodePath, pd.end) >>)]
             ELSE IF pd.patternType = "regex"
             THEN [expr |-> AndExpr(<< prefixExpr.expr, RegexExpr(CodePath, pd.value) >>)]
             ELSE combinePrefixWithCode(prefixExpr, pd, "$code")
        ELSE buildItemsExprNoPrefix(pd)

buildKeysExpr(pd) == buildExprWithoutPrefix(patternDataToPattern(pd), FALSE)

buildLineExpr(pd) == buildSingleFieldExpr(pd, "$key.line.code")

buildBrandExpr(pd) == buildSingleFieldExpr(pd, "$key.brand.code")

createPositiveExpr(field, pd) ==
    IF field = "items" THEN buildItemsExpr(pd)
    ELSE IF field = "keys" THEN buildKeysExpr(pd)
    ELSE IF field = "lines" THEN buildLineExpr(pd)
    ELSE buildBrandExpr(pd)

buildStageFromData(field, patternData, exclude) ==
    LET posExpr == createPositiveExpr(field, patternData)
    IN  IF exclude THEN [match |-> [nor |-> <<posExpr>>]]
        ELSE [match |-> posExpr]

(***************************************************************************)
(* What the query engine does with a compiled stage: the meaning of the    *)
(* operators the builders above emit ($eq, $gt, $lt, $gte, $lte on         *)
(* strings, $regexMatch with option i, $and, $nor, $expr, $concat) on an   *)
(* item document [line, brand, code].                                      *)
(***************************************************************************)
\* printable ASCII in code order; strings compare by code unit
AsciiSeq ==
    << " ","!","\"","#","$","%","&","'","(",")","*","+",",","-",".","/",
       "0","1","2","3","4","5","6","7","8","9",":",";","<","=",">","?","@",
       "A","B","C","D","E","F","G","H","I","J","K","L","M",
       "N","O","P","Q","R","S","T","U","V","W","X","Y","Z",
       "[","\\","]","^","_","backtick",
       "a","b","c","d","e","f","g","h","i","j","k","l","m",
       "n","o","p","q","r","s","t","u","v","w","x","y","z",
       "{","|","}","~" >>

Ord(c) == CHOOSE i \in 1..Len(AsciiSeq) : AsciiSeq[i] = c

\* a < b for strings, by code unit, a proper prefix being smaller
RECURSIVE StrLess(_, _)
StrLess(a, b) ==
    IF Len(b) = 0 THEN FALSE
    ELSE IF Len(a) = 0 THEN TRUE
    ELSE IF a[1] = b[1] THEN StrLess(Tail(a), Tail(b))
    ELSE Ord(a[1]) < Ord(b[1])

StrCompare(op, a, b) ==
    IF op = "$eq" THEN a = b
    ELSE IF op = "$gt" THEN StrLess(b, a)
    ELSE IF op = "$lt" THEN StrLess(a, b)
    ELSE IF op = "$gte" THEN ~StrLess(a, b)
    ELSE ~StrLess(b, a)

PathValue(doc, path) ==
    IF path = "$code" THEN doc.code
    ELSE IF path = "$key.line.code" THEN doc.line
    ELSE doc.brand

RECURSIVE ConcatValue(_, _)
ConcatValue(doc, paths) ==
    IF Len(paths) = 0 THEN <<>>
    ELSE PathValue(doc, paths[1]) \o ConcatValue(doc, Tail(paths))

InputValue(doc, input) ==
    IF "path" \in DOMAIN input THEN PathValue(doc, input.path)
    ELSE ConcatValue(doc, input.concat)

\* the regular expressions the model evaluates: literals, ".", "x*",
\* a leading "^" and a trailing "$"
RegexInSubset(re) ==
    /\ \A i \in 1..Len(re) :
          /\ re[i] \notin {"[", "]", "(", ")", "{", "}", "+", "?", "|", "\\"}
          /\ re[i] = "^" => i = 1
          /\ re[i] = "$" => i = Len(re)
          /\ re[i] = "*" => i > 1 /\ re[i - 1] \notin {"*", "^"}

SameCharIgnoringCase(p, c) == p = "." \/ LowerChar(p) = LowerChar(c)

RECURSIVE matchHere(_, _)
matchHere(re, text) ==
    IF Len(re) = 0 THEN TRUE
    ELSE IF Len(re) >= 2 /\ re[2] = "*"
    THEN \/ matchHere(Drop(re, 2), text)
         \/ /\ Len(text) >= 1
            /\ SameCharIgnoringCase(re[1], text[1])
            /\ matchHere(re, Tail(text))
    ELSE IF Len(re) = 1 /\ re[1] = "$" THEN Len(text) = 0
    ELSE /\ Len(text) >= 1
         /\ SameCharIgnoringCase(re[1], text[1])
         /\ matchHere(Tail(re), Tail(text))

\* $regexMatch with options "i": the regex matches somewhere in the text
regexMatch(re, text) ==
    IF startsWith(re, "^") THEN matchHere(Tail(re), text)
    ELSE \E i \in 0..Len(text) : matchHere(re, Drop(text, i))

RECURSIVE EvalExpr(_, _)
EvalExpr(e, doc) ==
    IF e.op = "$and" THEN \A i \in 1..Len(e.args) : EvalExpr(e.args[i], doc)
    ELSE IF e.op = "$regexMatch" THEN regexMatch(e.regex, InputValue(doc, e.input))
    ELSE StrCompare(e.op, InputValue(doc, e.input), e.value)

\* a filter the engine accepts: $match is a stage name, not a query operator
RECURSIVE ValidQuery(_)
ValidQuery(q) ==
    IF "match" \in DOMAIN q THEN FALSE
    ELSE IF "nor" \in DOMAIN q THEN \A i \in 1..Len(q.nor) : ValidQuery(q.nor[i])
    ELSE TRUE

RECURSIVE Satisfies(_, _)
Satisfies(q, doc) ==
    IF "expr" \in DOMAIN q THEN EvalExpr(q.expr, doc)
    ELSE IF "nor" \in DOMAIN q THEN \A i \in 1..Len(q.nor) : ~Satisfies(q.nor[i], doc)
    ELSE IF "match" \in DOMAIN q THEN FALSE
    ELSE TRUE

\* a document passes a {$match: Q} stage
Passes(stage, doc) == ValidQuery(stage.match) /\ Satisfies(stage.match, doc)

(***************************************************************************)
(* The instruction store (instruction.model.ts) and                        *)
(* ParserPipeline.parseAndStoreToken (pipeline_builder.ts 153-178)         *)
(***************************************************************************)
\* a task whose InstructionModel.create has been issued and not yet answered
PENDING == [kind |-> "pending"]

\* a task whose promise was rejected
Rejected(error) == [kind |-> "rejected", error |-> error]

IsDoc(x) == "token" \in DOMAIN x

\* lines 156-161: a leading "-" makes the token an exclusion and is sliced off
excludeOf(rawToken, wasExclude) == wasExclude \/ startsWith(rawToken, "-")

tokenBodyOf(rawToken) == IF startsWith(rawToken, "-") THEN Drop(rawToken, 1) ELSE rawToken

\* lines 168-176: the document handed to InstructionModel.create
instructionDoc(rawToken, exclude, field, patternData) ==
    [token |-> rawToken,
     field |-> field,
     type |-> IF exclude THEN "exclude" ELSE "include",
     patternData |-> patternData,
     matchStage |-> buildStageFromData(field, patternData, exclude)]

\* a token that did not match persisted as a literal of the items field
persistParsedOrLiteral(rawToken, exclude, parsed) ==
    IF parsed = NULL
    THEN instructionDoc(rawToken, exclude, "items",
                        [patternType |-> "value", keyPrefix |-> undefined,
                         value |-> tokenBodyOf(rawToken)])
    ELSE instructionDoc(rawToken, exclude, parsed.field, parsed.patternData)

\* lines 162-176: nothing is persisted when parseSingleToken finds no match
persistParsed(rawToken, exclude, parsed) ==
    IF parsed = NULL THEN NULL
    ELSE instructionDoc(rawToken, exclude, parsed.field, parsed.patternData)

\* lines 157-176: the document parseAndStoreToken hands to create, or NULL
\* when parseSingleToken finds no match (then it returns without a write)
docToCreate(rawToken, wasExclude) ==
    persistParsed(rawToken, excludeOf(rawToken, wasExclude),
                  parseSingleToken(tokenBodyOf(rawToken)))

\* a collection without the unique index
violatesUniqueNever(docs, doc) == FALSE

\* instruction.model.ts 5-9: `token: { unique: true }`; the store rejects a
\* document whose token is already present
violatesUnique(docs, doc) == \E k \in 1..Len(docs) : docs[k].token = doc.token

\* InstructionModel.find({ token: { $in: tokenKeys } }).lean()
findByTokens(docs, tokenKeys) ==
    LET wanted(d) == \E i \in 1..Len(tokenKeys) : d.token = tokenKeys[i]
    IN  SelectSeq(docs, wanted)

\* lines 39-42 and 47: docsMap.set(doc.token, doc) for each document read,
\* then docsMap.get(tokenKey) ?? null; a later document replaces an earlier one
docsMapGet(docs, tokenKey) ==
    LET at == {k \in 1..Len(docs) : docs[k].token = tokenKey}
    IN  IF at = {} THEN NULL
        ELSE docs[CHOOSE k \in at : \A l \in at : l <= k]

\* Promise.all keeps each task's value at the task's own index
settle(results, i, value) == [results EXCEPT ![i] = value]

(***************************************************************************)
(* ParserPipeline.getPipelineForInstruction, lines 54-97: assembling the   *)
(* ParsedResult and the stage list from the per-token results              *)
(***************************************************************************)
EmptyFieldSet == [include |-> <<>>, exclude |-> <<>>]

EmptyParsed(desc) ==
    [keys |-> EmptyFieldSet, items |-> EmptyFieldSet, lines |-> EmptyFieldSet,
     brands |-> EmptyFieldSet, desc |-> desc]

\* lines 58-71: the tokens whose result is null, in token order
RECURSIVE nonDynamicTokens(_, _)
nonDynamicTokens(tokens, results) ==
    IF Len(tokens) = 0 THEN <<>>
    ELSE (IF IsDoc(results[1]) THEN <<>> ELSE <<tokens[1].tokenStr>>)
         \o nonDynamicTokens(Tail(tokens), Tail(results))

\* the description without the tokens that failed to compile
finalDescOfTokenizerOnly(desc, nonDynamic) == trim(desc)

\* line 74
finalDescOf(desc, nonDynamic) == trim(desc \o <<" ">> \o joinSpace(nonDynamic))

\* lines 85-95: one pattern and one stage per non-null result, in order
RECURSIVE pushAll(_, _, _)
pushAll(results, parsed, pipeline) ==
    IF Len(results) = 0 THEN [parseResult |-> parsed, pipeline |-> pipeline]
    ELSE IF ~IsDoc(results[1]) THEN pushAll(Tail(results), parsed, pipeline)
    ELSE LET res == results[1]
             pat == patternDataToPattern(res.patternData)
             list == IF res.type = "exclude" THEN "exclude" ELSE "include"
         IN  pushAll(Tail(results),
                     [parsed EXCEPT ![res.field][list] = Append(@, pat)],
                     Append(pipeline, res.matchStage))

\* the results taken from the last token to the first
assembleLastFirst(tokens, desc, results) ==
    pushAll([k \in 1..Len(results) |-> results[Len(results) + 1 - k]],
            EmptyParsed(finalDescOf(desc, nonDynamicTokens(tokens, results))), <<>>)

\* lines 59-97
assemble(tokens, desc, results) ==
    pushAll(results, EmptyParsed(finalDescOf(desc, nonDynamicTokens(tokens, results))), <<>>)

(***************************************************************************)
(* InstructionParser: tokenizer and field assignment (parser.ts 252-586)   *)
(***************************************************************************)
\* InstructionParser.fieldAliases[alias]: the same table as the alias map
fieldAliases(alias) == aliasMap(alias)

\* fieldPatterns.items: /^([A-Z0-9]{6}|[A-Z0-9]{5}\s)[A-Z0-9]{4}$/
itemsShape(value) ==
    /\ Len(value) = 10
    /\ AllIn(SubSeq(value, 1, 5), UpperAlnum)
    /\ value[6] \in UpperAlnum \cup {" "}
    /\ AllIn(SubSeq(value, 7, 10), UpperAlnum)

\* the field whose shape is tried first is brands
fieldPatternOfBrandsFirst(value) ==
    IF IsUpperAlnum(value, 2, 3) THEN "brands"
    ELSE IF IsUpperAlnum(value, 5, 6) THEN "keys"
    ELSE IF itemsShape(value) THEN "items"
    ELSE IF IsUpperAlnum(value, 3, 3) THEN "lines"
    ELSE NoField

\* lines 520-530: the first entry of fieldPatterns, in the order keys, items,
\* lines, brands, whose regular expression the value matches
fieldPatternOf(value) ==
    IF IsUpperAlnum(value, 5, 6) THEN "keys"
    ELSE IF itemsShape(value) THEN "items"
    ELSE IF IsUpperAlnum(value, 3, 3) THEN "lines"
    ELSE IF IsUpperAlnum(value, 2, 3) THEN "brands"
    ELSE NoField

\* every kind of pattern, a literal value too, stands for items
fieldOfPatternKindAlwaysItems(value, patterns) ==
    IF Len(patterns) = 0 THEN NoField ELSE "items"

\* lines 533-558: the field the kind of the first pattern stands for
fieldOfPatternKind(value, patterns) ==
    IF Len(patterns) = 0 THEN NoField
    ELSE IF patterns[1].type \in {"comparison", "range", "regex"} THEN "items"
    ELSE IF itemsShape(value) THEN "items"
    ELSE IF IsUpperAlnum(value, 5, 6) THEN "keys"
    ELSE IF IsUpperAlnum(value, 3, 3) THEN "lines"
    ELSE IF IsUpperAlnum(value, 2, 3) THEN "brands"
    ELSE NoField

\* InstructionParser.determineField(value, patterns)
parserDetermineField(value, patterns) ==
    IF fieldPatternOf(value) # NoField THEN fieldPatternOf(value)
    ELSE fieldOfPatternKind(value, patterns)

\* parser.ts 332-356: the value parseInstruction hands to extractPatterns
parserValue(token) ==
    LET value == IF startsWith(token, "-") THEN Drop(token, 1) ELSE token
        q == fieldMatchQuoted(value)
        m == fieldMatch(value)
    IN  IF q # NULL THEN q.value
        ELSE IF m # NULL THEN m.value
        ELSE value

\* /(\w+):/i.test(instruction)
hasFieldPrefix(instruction) ==
    \E i \in 1..(Len(instruction) - 1) :
        instruction[i] \in WordChar /\ instruction[i + 1] = ":"

\* the instruction is always split by the token expression
tokenizeAlways(instruction) == matchParts(instruction)

\* InstructionParser.tokenize
tokenize(instruction) ==
    IF ~hasFieldPrefix(instruction) THEN << instruction >>
    ELSE matchParts(instruction)

\* lines 342-356: the field of the alias of a token without its marker
parserField(value) ==
    LET q == fieldMatchQuoted(value)
        m == fieldMatch(value)
    IN  IF q # NULL THEN fieldAliases(toLowerCase(q.alias))
        ELSE IF m # NULL THEN fieldAliases(toLowerCase(m.alias))
        ELSE NoField

\* InstructionParser.assignPatterns
assignPatterns(result, patterns, field, exclude) ==
    [result EXCEPT ![field][IF exclude THEN "exclude" ELSE "include"] = @ \o patterns]

\* line 363: `${value} ${tokens[i + 1]}`, or nothing when token i is the last
combinedValue(tokens, i) ==
    IF i + 1 <= Len(tokens)
    THEN parserValue(tokens[i]) \o <<" ">> \o tokens[i + 1]
    ELSE <<>>

\* no token is joined with the one after it
mergesNever(tokens, i) == FALSE

\* lines 361-371: token i has no field and joins token i+1 into an item code
merges(tokens, i) ==
    /\ parserField(IF startsWith(tokens[i], "-") THEN Drop(tokens[i], 1) ELSE tokens[i]) = NoField
    /\ i + 1 <= Len(tokens)
    /\ itemsShape(combinedValue(tokens, i))

\* lines 373-393: token i resolved alone
resolveAlone(result, token, field, value, patterns, exclude) ==
    IF Len(patterns) > 0
    THEN IF field # NoField
         THEN assignPatterns(result, patterns, field, exclude)
         ELSE IF parserDetermineField(value, patterns) # NoField
         THEN assignPatterns(result, patterns, parserDetermineField(value, patterns), exclude)
         ELSE [result EXCEPT !.desc = @ \o token \o <<" ">>]
    ELSE IF field = NoField
    THEN [result EXCEPT !.desc = @ \o token \o <<" ">>]
    ELSE result

\* the loop of parseInstruction from token i on; the only index ever put in
\* processedIndices is i+1 while token i is handled, so a merge skips to i+2
RECURSIVE parseTokens(_, _, _)
parseTokens(tokens, i, result) ==
    IF i > Len(tokens) THEN [result EXCEPT !.desc = trim(@)]
    ELSE IF merges(tokens, i)
    THEN parseTokens(tokens, i + 2,
                     assignPatterns(result, extractPatterns(combinedValue(tokens, i)),
                                    "items", startsWith(tokens[i], "-")))
    ELSE parseTokens(tokens, i + 1,
                     resolveAlone(result, tokens[i],
                                  parserField(IF startsWith(tokens[i], "-")
                                              THEN Drop(tokens[i], 1) ELSE tokens[i]),
                                  parserValue(tokens[i]),
                                  extractPatterns(parserValue(tokens[i])),
                                  startsWith(tokens[i], "-")))

\* new InstructionParser(instruction).parsed
parseInstruction(instruction) ==
    IF trim(instruction) = <<>> THEN EmptyParsed(<<>>)
    ELSE parseTokens(tokenize(instruction), 1, EmptyParsed(<<>>))

(***************************************************************************)
(* SearchPipelineBuilder: the expression of one pattern                    *)
(* (searchBuilder.ts 120-463)                                              *)
(***************************************************************************)
\* SearchPipelineBuilder.buildMainExpr: every kind over the item code
searchBuildMainExpr(pattern) ==
    IF pattern.type = "value"
    THEN [expr |-> CmpExpr("$eq", CodePath, pattern.value)]
    ELSE IF pattern.type = "regex"
    THEN [expr |-> RegexExpr(CodePath, pattern.value)]
    ELSE IF pattern.type = "comparison"
    THEN [expr |-> CmpExpr(mapOperator(pattern.operator), CodePath, pattern.value)]
    ELSE IF pattern.type = "range"
    THEN [expr |-> AndExpr(<< CmpExpr("$gte", CodePath, pattern.start),
                              CmpExpr("$lte", CodePath, pattern.end) >>)]
    ELSE NULL

\* SearchPipelineBuilder.buildSingleFieldExpr
searchBuildSingleFieldExpr(pattern, fieldPath) ==
    IF pattern.type = "value"
    THEN [expr |-> CmpExpr("$eq", [path |-> fieldPath], pattern.value)]
    ELSE IF pattern.type = "regex"
    THEN [expr |-> RegexExpr([path |-> fieldPath], pattern.value)]
    ELSE IF pattern.type = "comparison"
    THEN [expr |-> CmpExpr(mapOperator(pattern.operator), [path |-> fieldPath], pattern.value)]
    ELSE IF pattern.type = "range"
    THEN [expr |-> AndExpr(<< CmpExpr("$gte", [path |-> fieldPath], pattern.start),
                              CmpExpr("$lte", [path |-> fieldPath], pattern.end) >>)]
    ELSE NULL

\* every kind of items pattern without prefix over the three-part concatenation
searchBuildItemExprAllConcat(pattern) ==
    IF pattern.keyPrefix # undefined
    THEN [expr |-> AndExpr(<< RegexExpr(KeyConcat, pattern.keyPrefix),
                              searchBuildMainExpr(pattern).expr >>)]
    ELSE buildExprWithoutPrefix(pattern, TRUE)

\* SearchPipelineBuilder.buildItemExpr; buildExprWithoutPrefix and mapOperator
\* of the class are the same text as ParserPipeline's
searchBuildItemExpr(pattern) ==
    IF pattern.keyPrefix # undefined
    THEN [expr |-> AndExpr(<< RegexExpr(KeyConcat, pattern.keyPrefix),
                              searchBuildMainExpr(pattern).expr >>)]
    ELSE IF pattern.type \in {"comparison", "range"} THEN searchBuildMainExpr(pattern)
    ELSE IF pattern.type \in {"value", "regex"} THEN buildExprWithoutPrefix(pattern, TRUE)
    ELSE NULL

\* SearchPipelineBuilder.buildExpr
searchBuildExpr(pattern, fieldName) ==
    IF fieldName = "items" THEN searchBuildItemExpr(pattern)
    ELSE IF fieldName = "keys" THEN buildExprWithoutPrefix(pattern, FALSE)
    ELSE IF fieldName = "lines" THEN searchBuildSingleFieldExpr(pattern, "$key.line.code")
    ELSE IF fieldName = "brands" THEN searchBuildSingleFieldExpr(pattern, "$key.brand.code")
    ELSE NULL

\* SearchPipelineBuilder.buildFieldCondition: .map(buildExpr).filter(not null)
RECURSIVE searchClauses(_, _)
searchClauses(patterns, fieldName) ==
    IF Len(patterns) = 0 THEN <<>>
    ELSE (IF searchBuildExpr(patterns[1], fieldName) # NULL
          THEN << searchBuildExpr(patterns[1], fieldName) >> ELSE <<>>)
         \o searchClauses(Tail(patterns), fieldName)

\* the conditions object: $or when there are include clauses, $nor when
\* there are exclude clauses
searchConditions(orClauses, norClauses) ==
    IF Len(orClauses) > 0 /\ Len(norClauses) > 0
    THEN [or |-> orClauses, nor |-> norClauses]
    ELSE IF Len(orClauses) > 0 THEN [or |-> orClauses]
    ELSE IF Len(norClauses) > 0 THEN [nor |-> norClauses]
    ELSE [empty |-> TRUE]

\* SearchPipelineBuilder.buildFieldCondition
buildFieldCondition(fieldPatterns, fieldName) ==
    IF Len(fieldPatterns.include) = 0 /\ Len(fieldPatterns.exclude) = 0 THEN NULL
    ELSE searchConditions(searchClauses(fieldPatterns.include, fieldName),
                          searchClauses(fieldPatterns.exclude, fieldName))

\* the conditions are pushed for items first
searchFieldOrderItemsFirst == << "items", "keys", "lines", "brands" >>

\* lines 48-58: the order the field conditions are pushed in
searchFieldOrder == << "keys", "items", "lines", "brands" >>

\* lines 48-58: the conditions that are not null, in order
RECURSIVE andConditions(_, _)
andConditions(parsed, fields) ==
    IF Len(fields) = 0 THEN <<>>
    ELSE (IF buildFieldCondition(parsed[fields[1]], fields[1]) # NULL
          THEN << buildFieldCondition(parsed[fields[1]], fields[1]) >> ELSE <<>>)
         \o andConditions(parsed, Tail(fields))

\* lines 60-68
searchPipelineOf(conditions) ==
    IF Len(conditions) > 0 THEN << [match |-> [and |-> conditions]] >> ELSE <<>>

\* SearchPipelineBuilder.buildSearchPipeline
buildSearchPipeline(parsed) == searchPipelineOf(andConditions(parsed, searchFieldOrder))

(***************************************************************************)
(* Inputs of the model                                                     *)
(***************************************************************************)
\* the longest instruction, in tokens
MaxTokens == 2

\* the tokens instructions are made of: a compilable token, its exclusion,
\* a dynamic-looking token that does not compile, and a free-text word
TokenPool ==
    { <<"i","t","e","m","s",":","5","0">>,
      <<"-","i","t","e","m","s",":","5","0">>,
      <<"i","t","e","m","s",":","a","b">>,
      <<"H","o","l","a">> }

\* the longest instruction of the second of two concurrent calls
MaxTokensSecond == 1

\* the instructions of up to n tokens separated by one blank, and the blank
\* instruction
InstructionsUpTo(n) ==
    { joinSpace(ts) : ts \in UNION { [1..k -> TokenPool] : k \in 1..n } }
    \cup { <<" ">> }

\* the concurrent calls of getPipelineForInstruction
Reqs == {"r1", "r2"}

\* the instructions call r is made with
Instructions(r) ==
    IF r = "r1" THEN InstructionsUpTo(MaxTokens) ELSE InstructionsUpTo(MaxTokensSecond)

\* the latest reading of the clock, in seconds
MaxClock == 3

\* the longest expires_in_seconds setUser is called with
MaxTtl == 2

\* the user ids of the session cache and of the users collection
UserIds == {"u1", "u2"}

\* the id getUser takes for absent: `!user_id` holds for undefined and for ""
NoUserId == ""

\* the role flags of a user record and of a token's role claim
Roles == {1, 2}

\* the user documents the cache is given for an id
UserDocsOf(id) == { [id |-> id, role |-> r] : r \in Roles }

\* what is known of the calls on one id: the entry of the most recent setUser,
\* whether deleteUser came after it, whether a getUser found it expired
NoHistory == [set |-> NULL, deleted |-> FALSE, expired |-> FALSE]

\* no call on the cache yet
NoCall == [op |-> "none", id |-> NoUserId, at |-> 0, ret |-> NULL]

NoPayload == [sub |-> NoUserId, role |-> 0, exp |-> 0]

\* no request received yet
NoRequest ==
    [phase |-> "idle", payload |-> NoPayload, currDate |-> 0, user |-> NULL,
     path |-> "none", outcome |-> "none"]

(***************************************************************************)
(* State                                                                   *)
(***************************************************************************)
VARIABLES
    store,          \* the documents of the instructions collection, in insertion order
    pc,             \* per call: "idle", "await" (Promise.all pending), "done", "failed"
    input,          \* per call: the instruction string
    tokens,         \* per call: tokenizeInput(input).tokens
    desc,           \* per call: tokenizeInput(input).desc
    docsMap,        \* per call: the documents the batch read returned
    parseResults,   \* per call: one slot per token: a document, NULL, PENDING or Rejected
    outOfOrder,     \* per call: some task was answered while an earlier token's task was pending
    result,         \* per call: the ResultPipeline returned, or the error thrown
    ptoken,         \* classification run: the token under test
    pphase,         \* classification run: "input", "compiled", "evaluated"
    pdoc,           \* classification run: what parseAndStoreToken builds for ptoken
    ppatterns,      \* classification run: InstructionParser.extractPatterns of the body
    pitem,          \* classification run: the item document the stage is run on
    ppass,          \* classification run: whether pitem passes the stage
    pparsed,        \* classification run: InstructionParser's result for ptoken alone
    iinput,         \* instruction run: the instruction under test
    iphase,         \* instruction run: "input", "parsed", "done"
    itokens,        \* instruction run: InstructionParser.tokenize(iinput)
    iparsed,        \* instruction run: what new InstructionParser(iinput) holds
    isearch,        \* instruction run: buildSearchPipeline of iparsed
    itz,            \* instruction run: ParserPipeline.tokenizeInput(iinput)
    ipipe,          \* instruction run: what getPipelineForInstruction(iinput) returns
    user_map,       \* CacheManager.user_map: per user id, NULL or the entry [data, exp]
    now,            \* Date.now() / 1000: the wall clock, in seconds
    hist,           \* per user id: the calls made on the cache for it
    clog,           \* the last call on the cache and what it returned
    users,          \* the users collection: per user id, NULL or the user document
    areq            \* authMiddleware: the request in flight, or the last outcome

vars == << store, pc, input, tokens, desc, docsMap, parseResults, outOfOrder, result,
           ptoken, pphase, pdoc, ppatterns, pitem, ppass, pparsed,
           iinput, iphase, itokens, iparsed, isearch, itz, ipipe,
           user_map, now, hist, clog, users, areq >>

callVars == << store, pc, input, tokens, desc, docsMap, parseResults, outOfOrder, result >>

instrVars == << iinput, iphase, itokens, iparsed, isearch, itz, ipipe >>

classifyVars == << ptoken, pphase, pdoc, ppatterns, pitem, ppass, pparsed >>

sessionVars == << user_map, now, hist, clog, users, areq >>

pureVars == << classifyVars, instrVars, sessionVars >>

NoResult == [kind |-> "none"]

NoItem == [line |-> <<>>, brand |-> <<>>, code |-> <<>>]

CallInit ==
    /\ store = <<>>
    /\ pc = [r \in Reqs |-> "idle"]
    /\ input = [r \in Reqs |-> <<>>]
    /\ tokens = [r \in Reqs |-> <<>>]
    /\ desc = [r \in Reqs |-> <<>>]
    /\ docsMap = [r \in Reqs |-> <<>>]
    /\ parseResults = [r \in Reqs |-> <<>>]
    /\ outOfOrder = [r \in Reqs |-> FALSE]
    /\ result = [r \in Reqs |-> NoResult]

InstrIdle ==
    /\ iinput = <<>>
    /\ iphase = "off"
    /\ itokens = <<>>
    /\ iparsed = NULL
    /\ isearch = <<>>
    /\ itz = NULL
    /\ ipipe = NULL

ClassifyIdle ==
    /\ ptoken = <<>>
    /\ pphase = "off"
    /\ pdoc = NULL
    /\ ppatterns = <<>>
    /\ pitem = NoItem
    /\ ppass = FALSE
    /\ pparsed = NULL

SessionIdle ==
    /\ user_map = [id \in UserIds |-> NULL]
    /\ now = 0
    /\ hist = [id \in UserIds |-> NoHistory]
    /\ clog = NoCall
    /\ users = [id \in UserIds |-> NULL]
    /\ areq = NoRequest

PureIdle == ClassifyIdle /\ InstrIdle /\ SessionIdle

Init == CallInit /\ PureIdle

(***************************************************************************)
(* getPipelineForInstruction as a state machine                            *)
(***************************************************************************)
HasPending(r) == \E i \in 1..Len(parseResults[r]) : parseResults[r][i] = PENDING

EarlierPending(r, i) == \E j \in 1..(i - 1) : parseResults[r][j] = PENDING

\* the task compiles and writes whatever the batch read returned
taskForAlwaysWrite(processedDoc, tk) ==
    IF docToCreate(tk.tokenStr, tk.exclude) = NULL THEN NULL ELSE PENDING

\* lines 45-52 for one token, up to the first await of the task
taskFor(processedDoc, tk) ==
    IF processedDoc # NULL THEN processedDoc
    ELSE IF docToCreate(tk.tokenStr, tk.exclude) = NULL THEN NULL
    ELSE PENDING

\* line 47: docsMap.get(tokenKey) ?? null
startTask(docs, tk) == taskFor(docsMapGet(docs, tk.tokenStr), tk)

\* lines 19-30: the blank instruction returns at once
CallBlank(r) ==
    /\ pc[r] = "idle"
    /\ \E in \in Instructions(r) :
          /\ Len(trim(in)) = 0
          /\ input' = [input EXCEPT ![r] = in]
    /\ pc' = [pc EXCEPT ![r] = "done"]
    /\ tokens' = [tokens EXCEPT ![r] = <<>>]
    /\ desc' = [desc EXCEPT ![r] = <<>>]
    /\ docsMap' = [docsMap EXCEPT ![r] = <<>>]
    /\ parseResults' = [parseResults EXCEPT ![r] = <<>>]
    /\ outOfOrder' = [outOfOrder EXCEPT ![r] = FALSE]
    /\ result' = [result EXCEPT ![r] = [parseResult |-> EmptyParsed(<<>>), pipeline |-> <<>>]]
    /\ UNCHANGED << store, pureVars >>

\* lines 39-52: the documents read are indexed by token and one task per
\* token is started; a task that needs a write stays pending until the store
\* answers
begin(r, in, tz, docs) ==
    /\ input' = [input EXCEPT ![r] = in]
    /\ tokens' = [tokens EXCEPT ![r] = tz.tokens]
    /\ desc' = [desc EXCEPT ![r] = tz.desc]
    /\ docsMap' = [docsMap EXCEPT ![r] = docs]
    /\ parseResults' = [parseResults EXCEPT ![r] =
           [i \in 1..Len(tz.tokens) |-> startTask(docs, tz.tokens[i])]]

\* line 34
tokenKeysOf(tks) == [i \in 1..Len(tks) |-> tks[i].tokenStr]

\* lines 37-38: the batch read, answered from the store as it is then
beginRead(r, in, tz) == begin(r, in, tz, findByTokens(store, tokenKeysOf(tz.tokens)))

\* lines 32-52: tokenize, read the store once, start the tasks
Call(r) ==
    /\ pc[r] = "idle"
    /\ \E in \in Instructions(r) :
          /\ Len(trim(in)) > 0
          /\ beginRead(r, in, tokenizeInput(in))
    /\ pc' = [pc EXCEPT ![r] = "await"]
    /\ outOfOrder' = [outOfOrder EXCEPT ![r] = FALSE]
    /\ result' = [result EXCEPT ![r] = NoResult]
    /\ UNCHANGED << store, pureVars >>

\* InstructionModel.create(doc) accepted by the store
create(r, i, doc) ==
    /\ ~violatesUnique(store, doc)
    /\ store' = Append(store, doc)
    /\ parseResults' = [parseResults EXCEPT ![r] = settle(@, i, doc)]

\* line 170 answered with the created document; line 177 returns it
InsertOk(r, i) ==
    /\ parseResults[r][i] = PENDING
    /\ create(r, i, docToCreate(tokens[r][i].tokenStr, tokens[r][i].exclude))
    /\ outOfOrder' = [outOfOrder EXCEPT ![r] = @ \/ EarlierPending(r, i)]
    /\ UNCHANGED << pc, input, tokens, desc, docsMap, result, pureVars >>

\* a rejected task rejects Promise.all, hence the call, unless it already has
reject(r, i, error) ==
    /\ parseResults' = [parseResults EXCEPT ![r] = settle(@, i, Rejected(error))]
    /\ outOfOrder' = [outOfOrder EXCEPT ![r] = @ \/ EarlierPending(r, i)]
    /\ IF pc[r] = "await"
       THEN /\ pc' = [pc EXCEPT ![r] = "failed"]
            /\ result' = [result EXCEPT ![r] = [error |-> error]]
       ELSE UNCHANGED << pc, result >>

\* line 170 answered with the unique index's duplicate-key error; nothing
\* catches it in parseAndStoreToken or in the task
InsertDuplicate(r, i) ==
    /\ parseResults[r][i] = PENDING
    /\ violatesUnique(store, docToCreate(tokens[r][i].tokenStr, tokens[r][i].exclude))
    /\ reject(r, i, "E11000 duplicate key")
    /\ UNCHANGED << store, input, tokens, desc, docsMap, pureVars >>

\* line 170 answered with any other write failure
InsertError(r, i) ==
    /\ parseResults[r][i] = PENDING
    /\ reject(r, i, "write failed")
    /\ UNCHANGED << store, input, tokens, desc, docsMap, pureVars >>

\* lines 53-97: every task fulfilled, the result is assembled and returned
Return(r) ==
    /\ pc[r] = "await"
    /\ ~HasPending(r)
    /\ pc' = [pc EXCEPT ![r] = "done"]
    /\ result' = [result EXCEPT ![r] = assemble(tokens[r], desc[r], parseResults[r])]
    /\ UNCHANGED << store, input, tokens, desc, docsMap, parseResults, outOfOrder, pureVars >>

Next ==
    \/ \E r \in Reqs : CallBlank(r)
    \/ \E r \in Reqs : Call(r)
    \/ \E r \in Reqs : \E i \in 1..Len(parseResults[r]) : InsertOk(r, i)
    \/ \E r \in Reqs : \E i \in 1..Len(parseResults[r]) : InsertDuplicate(r, i)
    \/ \E r \in Reqs : \E i \in 1..Len(parseResults[r]) : InsertError(r, i)
    \/ \E r \in Reqs : Return(r)

Spec == Init /\ [][Next]_vars

(***************************************************************************)
(* Classification, compilation and evaluation of one token: the pure       *)
(* functions of both parsers, run on tokens drawn from bounded sets        *)
(***************************************************************************)
\* the longest digit string used as a comparison value or range bound
MaxDigits == 5

DigitPool == {"0", "5"}

DigitStrings == UNION { [1..n -> DigitPool] : n \in 1..MaxDigits }

\* the 4-digit item codes over the same digits
ItemCodes == [1..4 -> DigitPool]

Items == { [line |-> <<"G","R","A">>, brand |-> <<"P","V","H">>, code |-> c] : c \in ItemCodes }

ItemsAlias == <<"i","t","e","m","s",":">>

CmpOps == { <<">">>, <<"<">>, <<">", "=">>, <<"<", "=">> }

RangeSep == <<"<", ">">>

\* the fixed other bound of the range tokens
FixedBounds == { <<"0">>, <<"5","5","5","5">> }

\* items:>v, items:<v, items:>=v, items:<=v and items:s<>e over digit strings
NumericTokens ==
    { ItemsAlias \o op \o v : op \in CmpOps, v \in DigitStrings }
    \cup { ItemsAlias \o v \o RangeSep \o f : v \in DigitStrings, f \in FixedBounds }
    \cup { ItemsAlias \o f \o RangeSep \o v : v \in DigitStrings, f \in FixedBounds }

Markers == { <<>>, <<"-">> }

Aliases == { <<>>, ItemsAlias, <<"b","r","a","n","d",":">>, <<"l","i","n","e",":">>, <<"k","e","y",":">> }

Brackets == { <<>>, <<"[","G","R","A","]">> }

Bodies ==
    { <<"5","0">>,
      <<"0","0","5","0">>,
      <<">","5","0">>,
      <<"<","=","5">>,
      <<">","=","0","0","5","0">>,
      <<"1","<",">","2","0">>,
      <<"<",">","5","0">>,
      <<"0","0","5","0","$">>,
      <<"^","0","0">>,
      <<"G","R","A","P","V","H">>,
      <<"G","R","A","P","V">>,
      <<"A","B","C">>,
      <<"A","B">>,
      <<"a","b">>,
      <<"\"","5","\"">> }

\* marker, alias, bracketed prefix and body in every combination
ShapeTokens ==
    { m \o a \o b \o v : m \in Markers, a \in Aliases, b \in Brackets, v \in Bodies }

\* every key of the alias map, and two of them in other letter case, before
\* a comparison, which every field accepts
AliasedComparisons ==
    { a \o <<":", ">", "5", "0">> :
        a \in { p[1] : p \in aliasPairs }
              \cup { <<"K","E","Y">>, <<"M","a","r","c","a","s">> } }

\* marker, alias and a bracket block with nothing after it
AliasBracketTokens ==
    { m \o a \o <<"[","G","R","A","]">> : m \in Markers, a \in Aliases \ { <<>> } }

\* every regular expression of the expression is one the model evaluates
RECURSIVE ExprInSubset(_)
ExprInSubset(e) ==
    IF e.op = "$and" THEN \A i \in 1..Len(e.args) : ExprInSubset(e.args[i])
    ELSE IF e.op = "$regexMatch" THEN RegexInSubset(e.regex)
    ELSE TRUE

RECURSIVE QueryInSubset(_)
QueryInSubset(q) ==
    IF "expr" \in DOMAIN q THEN ExprInSubset(q.expr)
    ELSE IF "nor" \in DOMAIN q THEN \A i \in 1..Len(q.nor) : QueryInSubset(q.nor[i])
    ELSE IF "match" \in DOMAIN q THEN QueryInSubset(q.match)
    ELSE TRUE

PureInit ==
    /\ ptoken \in ShapeTokens \cup AliasBracketTokens \cup AliasedComparisons \cup NumericTokens
    /\ pphase = "input"
    /\ pdoc = NULL
    /\ ppatterns = <<>>
    /\ pitem = NoItem
    /\ ppass = FALSE
    /\ pparsed = NULL
    /\ InstrIdle
    /\ SessionIdle

InitClassify == CallInit /\ PureInit

\* parseAndStoreToken up to the write, InstructionParser.extractPatterns, and
\* the InstructionParser run on the instruction made of the token alone
Compile ==
    /\ pphase = "input"
    /\ pdoc' = docToCreate(ptoken, startsWith(ptoken, "-"))
    /\ ppatterns' = extractPatterns(parserValue(ptoken))
    /\ pparsed' = parseInstruction(ptoken)
    /\ pphase' = "compiled"
    /\ UNCHANGED << ptoken, pitem, ppass, callVars, instrVars, sessionVars >>

\* the query engine runs the compiled stage on one item document
Evaluate ==
    /\ pphase = "compiled"
    /\ pdoc # NULL
    /\ QueryInSubset(pdoc.matchStage)
    /\ \E item \in Items :
          /\ pitem' = item
          /\ ppass' = Passes(pdoc.matchStage, item)
    /\ pphase' = "evaluated"
    /\ UNCHANGED << ptoken, pdoc, ppatterns, pparsed, callVars, instrVars, sessionVars >>

NextClassify == Compile \/ Evaluate

SpecClassify == InitClassify /\ [][NextClassify]_vars

(***************************************************************************)
(* Whole instructions through both parsers: new InstructionParser(input)   *)
(* and getPipelineForInstruction(input) run alone on an empty collection   *)
(***************************************************************************)
\* the longest instruction, in words
MaxWords == 3

\* the words instructions are made of: free text, the bare shapes of a line,
\* of a key (also excluded) and of an item number, aliased values that do and do not fit
\* their field, a quoted aliased value with and without the exclusion marker,
\* and a comparison
WordPool ==
    { <<"H","o","l","a">>,
      <<"G","R","A">>,
      <<"G","R","A","P","V">>,
      <<"-","G","R","A","P","V">>,
      <<"0","0","5","0">>,
      <<"k","e","y",":","A","B","C">>,
      <<"l","i","n","e",":","A","B","C">>,
      <<"b","r","a","n","d",":","\"","a"," ","b","\"">>,
      <<"-","b","r","a","n","d",":","\"","a"," ","b","\"">>,
      <<">","5","0">> }

\* the words of the quoted phrases
PhraseWords == { <<"L","A">>, <<"G","R","A">>, <<"r","o","j","a">> }

\* one phrase of up to MaxWords words in double or single quotes
QuotedPhrases ==
    { <<q>> \o joinSpace(ws) \o <<q>> :
        q \in {DQ, SQ}, ws \in UNION { [1..k -> PhraseWords] : k \in 1..MaxWords } }

\* parser.ts 232: the instruction of the class example
ClassExample ==
    <<"k","e","y","s",":","\"","A","B","C","D","E","\""," ",
       "-","i","t","e","m","s",":",">","1","0","0","0"," ",
       "\"","a","d","d","i","t","i","o","n","a","l"," ","d","e","s","c","r","i","p","t","i","o","n","\"">>

TestInstructions ==
    { joinSpace(ws) : ws \in UNION { [1..k -> WordPool] : k \in 1..MaxWords } }
    \cup QuotedPhrases
    \cup { ClassExample }

\* lines 45-52 for every token of a call that finds the collection empty
compileTokens(tks) ==
    [k \in 1..Len(tks) |-> docToCreate(tks[k].tokenStr, tks[k].exclude)]

\* two tasks of the call write a document with the same token: the unique
\* index refuses the second write and the call rejects
writesCollide(results) ==
    \E j \in 1..Len(results) : \E k \in (j + 1)..Len(results) :
        /\ results[j] # NULL
        /\ results[k] # NULL
        /\ results[j].token = results[k].token

\* lines 32-97 for a call that runs alone
runAlone(tz, results) ==
    IF writesCollide(results) THEN [error |-> "E11000 duplicate key"]
    ELSE assemble(tz.tokens, tz.desc, results)

\* getPipelineForInstruction(instruction) on an empty collection, no other call running
getPipelineAlone(instruction, tz) ==
    IF Len(trim(instruction)) = 0 THEN [parseResult |-> EmptyParsed(<<>>), pipeline |-> <<>>]
    ELSE runAlone(tz, compileTokens(tz.tokens))

InitInstruction ==
    /\ CallInit
    /\ ClassifyIdle
    /\ SessionIdle
    /\ iinput \in TestInstructions
    /\ iphase = "input"
    /\ itokens = <<>>
    /\ iparsed = NULL
    /\ isearch = <<>>
    /\ itz = NULL
    /\ ipipe = NULL

\* new InstructionParser(iinput), and buildSearchPipeline of its result
Parse ==
    /\ iphase = "input"
    /\ itokens' = tokenize(iinput)
    /\ iparsed' = parseInstruction(iinput)
    /\ isearch' = buildSearchPipeline(parseInstruction(iinput))
    /\ iphase' = "parsed"
    /\ UNCHANGED << iinput, itz, ipipe, callVars, classifyVars, sessionVars >>

\* ParserPipeline.getPipelineForInstruction(iinput)
GetPipeline ==
    /\ iphase = "parsed"
    /\ itz' = tokenizeInput(iinput)
    /\ ipipe' = getPipelineAlone(iinput, tokenizeInput(iinput))
    /\ iphase' = "done"
    /\ UNCHANGED << iinput, itokens, iparsed, isearch, callVars, classifyVars, sessionVars >>

NextInstruction == Parse \/ GetPipeline

SpecInstruction == InitInstruction /\ [][NextInstruction]_vars

(***************************************************************************)
(* The user-session cache: CacheManager of utils/cache_manager.ts, called  *)
(* directly with ids, user documents and lifetimes from bounded sets       *)
(***************************************************************************)
\* lines 19-23: the entry expires expires_in_seconds after the clock reading t
setUser(m, user_id, data, expires_in_seconds, t) ==
    [m EXCEPT ![user_id] = [data |-> data, exp |-> t + expires_in_seconds]]

\* a read that leaves the expired entry in the map
getUserKeepExpired(m, user_id, t) ==
    IF user_id = NoUserId THEN [ret |-> NULL, map |-> m]
    ELSE IF m[user_id] = NULL THEN [ret |-> NULL, map |-> m]
    ELSE IF m[user_id].exp < t THEN [ret |-> NULL, map |-> m]
    ELSE [ret |-> m[user_id].data, map |-> m]

\* lines 25-36: what getUser returns at the clock reading t, and the map it
\* leaves
getUser(m, user_id, t) ==
    IF user_id = NoUserId THEN [ret |-> NULL, map |-> m]
    ELSE IF m[user_id] = NULL THEN [ret |-> NULL, map |-> m]
    ELSE IF m[user_id].exp < t
    THEN [ret |-> NULL, map |-> [m EXCEPT ![user_id] = NULL]]
    ELSE [ret |-> m[user_id].data, map |-> m]

\* lines 38-40
deleteUser(m, user_id) == [m EXCEPT ![user_id] = NULL]

\* the most recent setUser(id) is in force at the clock reading t: no
\* deleteUser(id) came after it and its expiry is not earlier than t
InForce(h, t) == h.set # NULL /\ ~h.deleted /\ h.set.exp >= t

SetUser ==
    \E id \in UserIds : \E data \in UserDocsOf(id) : \E e \in 0..MaxTtl :
        /\ user_map' = setUser(user_map, id, data, e, now)
        /\ hist' = [hist EXCEPT ![id] = [set |-> [data |-> data, exp |-> now + e],
                                         deleted |-> FALSE,
                                         expired |-> FALSE]]
        /\ clog' = [op |-> "setUser", id |-> id, at |-> now, ret |-> NULL]
        /\ UNCHANGED << now, users, areq, callVars, classifyVars, instrVars >>

GetUser ==
    \E id \in UserIds \cup {NoUserId} :
        /\ user_map' = getUser(user_map, id, now).map
        /\ clog' = [op |-> "getUser", id |-> id, at |-> now,
                    ret |-> getUser(user_map, id, now).ret]
        /\ hist' = IF id \in UserIds /\ hist[id].set # NULL /\ ~hist[id].deleted
                      /\ hist[id].set.exp < now
                   THEN [hist EXCEPT ![id].expired = TRUE]
                   ELSE hist
        /\ UNCHANGED << now, users, areq, callVars, classifyVars, instrVars >>

DeleteUser ==
    \E id \in UserIds :
        /\ user_map' = deleteUser(user_map, id)
        /\ hist' = [hist EXCEPT ![id].deleted = TRUE]
        /\ clog' = [op |-> "deleteUser", id |-> id, at |-> now, ret |-> NULL]
        /\ UNCHANGED << now, users, areq, callVars, classifyVars, instrVars >>

\* Date.now() is the wall clock: the next reading is later, or earlier when
\* the host's clock was set back
Tick ==
    /\ \E t \in 0..MaxClock : t # now /\ now' = t
    /\ UNCHANGED << user_map, hist, clog, users, areq, callVars, classifyVars, instrVars >>

InitCache == CallInit /\ ClassifyIdle /\ InstrIdle /\ SessionIdle

NextCache == SetUser \/ GetUser \/ DeleteUser \/ Tick

SpecCache == InitCache /\ [][NextCache]_vars

(***************************************************************************)
(* authMiddleware with the session cache, one request at a time, split at  *)
(* its awaits: jwtVerify, then the cache read, then UserModel.findById     *)
(***************************************************************************)
\* the claims of the tokens presented: sub, role and exp
Payloads == [sub : UserIds, role : Roles, exp : 1..(MaxClock + 1)]

\* the Authorization header of a request: absent or not a bearer token, or a
\* bearer token that is or is not signed with the server's secret
Headers ==
    { [kind |-> "missing", signed |-> FALSE, payload |-> NoPayload] }
    \cup { [kind |-> "bearer", signed |-> s, payload |-> p] :
             s \in BOOLEAN, p \in Payloads }

\* lines 105-108: jose's jwtVerify resolves for a token signed with the secret
\* whose exp claim is later than the clock reading t, and throws otherwise
jwtVerify(header, t) == header.signed /\ header.payload.exp > t

\* lines 121-125: the token's claims disagree with the user document read
\* from the collection, or the token expired
tokenInvalid(user, payload, currDate) ==
    \/ user.role # payload.role
    \/ user.id # payload.sub
    \/ payload.exp <= currDate

\* the request ended with an error thrown
thrown(req, error) == [req EXCEPT !.phase = "idle", !.user = NULL, !.outcome = error]

\* lines 141-142: set("user", user) and next()
passed(req, user) == [req EXCEPT !.phase = "idle", !.user = user, !.outcome = "next"]

\* lines 92-108: the header is matched and the token verified
Receive ==
    \E header \in Headers :
        /\ areq.phase = "idle"
        /\ areq' = IF header.kind = "missing"
                   THEN thrown(NoRequest, "BadRequestError")
                   ELSE IF ~jwtVerify(header, now)
                   THEN thrown([NoRequest EXCEPT !.payload = header.payload], "JWTError")
                   ELSE [NoRequest EXCEPT !.phase = "verified",
                                          !.payload = header.payload]
        /\ UNCHANGED << user_map, now, hist, clog, users, callVars, classifyVars, instrVars >>

\* lines 110-117 and 132-142: the clock is read, the cache is asked, and on
\* a hit the expiry of the token is checked
Lookup ==
    /\ areq.phase = "verified"
    /\ IF getUser(user_map, areq.payload.sub, now).ret = NULL
       THEN /\ user_map' = getUser(user_map, areq.payload.sub, now).map
            /\ areq' = [areq EXCEPT !.phase = "finding", !.currDate = now,
                                    !.path = "miss"]
       ELSE IF areq.payload.exp <= now
       THEN /\ user_map' = deleteUser(getUser(user_map, areq.payload.sub, now).map,
                                      areq.payload.sub)
            /\ areq' = thrown([areq EXCEPT !.currDate = now, !.path = "hit"],
                              "UnauthorizedError")
       ELSE /\ user_map' = getUser(user_map, areq.payload.sub, now).map
            /\ areq' = passed([areq EXCEPT !.currDate = now, !.path = "hit"],
                              getUser(user_map, areq.payload.sub, now).ret)
    /\ UNCHANGED << now, hist, clog, users, callVars, classifyVars, instrVars >>

\* lines 113-131 and 141-142: findById answered; the token is checked against
\* the document and the document cached for the time the token has left
Found ==
    /\ areq.phase = "finding"
    /\ IF users[areq.payload.sub] = NULL
       THEN /\ areq' = thrown(areq, "UnauthorizedError")
            /\ UNCHANGED user_map
       ELSE IF tokenInvalid(users[areq.payload.sub], areq.payload, areq.currDate)
       THEN /\ areq' = thrown(areq, "UnauthorizedError")
            /\ UNCHANGED user_map
       ELSE /\ areq' = passed(areq, users[areq.payload.sub])
            /\ user_map' =
                 IF areq.payload.exp - areq.currDate > 0
                 THEN setUser(user_map, areq.payload.sub, users[areq.payload.sub],
                              areq.payload.exp - areq.currDate, now)
                 ELSE user_map
    /\ UNCHANGED << now, hist, clog, users, callVars, classifyVars, instrVars >>

\* the users collection holds u1 with one of the roles and does not hold u2
InitAuth ==
    /\ CallInit /\ ClassifyIdle /\ InstrIdle
    /\ user_map = [id \in UserIds |-> NULL]
    /\ now = 0
    /\ hist = [id \in UserIds |-> NoHistory]
    /\ clog = NoCall
    /\ \E r \in Roles :
          users = [id \in UserIds |-> IF id = "u1" THEN [id |-> id, role |-> r] ELSE NULL]
    /\ areq = NoRequest

NextAuth == Receive \/ Lookup \/ Found \/ Tick

SpecAuth == InitAuth /\ [][NextAuth]_vars

(***************************************************************************)
(* Properties of the instruction cache and of the pipeline assembler       *)
(***************************************************************************)
TokenAt(r, i) == tokens[r][i].tokenStr

\* the batch read of call r returned no document for its token i
Missed(r, i) == docsMapGet(docsMap[r], TokenAt(r, i)) = NULL

\* token i of call r compiles, so its task issues a write when it missed
Compilable(r, i) == docToCreate(TokenAt(r, i), tokens[r][i].exclude) # NULL

IsRejected(x) == "error" \in DOMAIN x

EntriesFor(token) == {k \in 1..Len(store) : store[k].token = token}

\* sub occurs in s as a contiguous run
Infix(sub, s) ==
    \E k \in 0..(Len(s) - Len(sub)) : SubSeq(s, k + 1, k + Len(sub)) = sub

\* C1: two compilations of the same unseen, compilable token that both missed
\* the batch read and both attempted the insert (neither met a storage
\* failure) both complete without error with the same compiled stage, and the
\* store then holds exactly one entry for the token.
C1_ConcurrentCompileSucceeds ==
    \A r1 \in Reqs : \A r2 \in Reqs :
      \A i \in 1..Len(parseResults[r1]) : \A j \in 1..Len(parseResults[r2]) :
        ( /\ <<r1, i>> # <<r2, j>>
          /\ TokenAt(r1, i) = TokenAt(r2, j)
          /\ Missed(r1, i) /\ Missed(r2, j)
          /\ Compilable(r1, i)
          /\ parseResults[r1][i] \notin {PENDING, Rejected("write failed")}
          /\ parseResults[r2][j] \notin {PENDING, Rejected("write failed")} )
        => /\ IsDoc(parseResults[r1][i])
           /\ IsDoc(parseResults[r2][j])
           /\ parseResults[r1][i].matchStage = parseResults[r2][j].matchStage
           /\ pc[r1] # "failed"
           /\ pc[r2] # "failed"
           /\ Cardinality(EntriesFor(TokenAt(r1, i))) = 1

\* C2: a failed insert of a token that compiled (duplicate key or any other
\* write failure) does not fail the call: once every task is answered the
\* call returns, and its stage list holds the stage of that token.
C2_FailedWriteDegrades ==
    \A r \in Reqs : \A i \in 1..Len(parseResults[r]) :
        IsRejected(parseResults[r][i])
        => /\ pc[r] # "failed"
           /\ pc[r] = "done" =>
                \E k \in 1..Len(result[r].pipeline) :
                    result[r].pipeline[k] =
                        docToCreate(TokenAt(r, i), tokens[r][i].exclude).matchStage

\* C3: at every step the store keeps every entry it has, unchanged and in
\* place, and holds at most one entry per token string.
C3_StoreEntriesUniqueAndImmutable ==
    [][ /\ \A k \in 1..Len(store) : Len(store') >= k /\ store'[k] = store[k]
        /\ \A k \in 1..Len(store') : \A l \in 1..Len(store') :
              store'[k].token = store'[l].token => k = l ]_vars

\* a second insert of a stored token was attempted and the entry is still alone
C3_Witness ==
    \E r \in Reqs : \E i \in 1..Len(parseResults[r]) :
        /\ parseResults[r][i] = Rejected("E11000 duplicate key")
        /\ Cardinality(EntriesFor(TokenAt(r, i))) = 1

\* C4: a token for which parseSingleToken finds no match is never inserted:
\* no write is issued for it, the store holds no entry for it, its result is
\* null and, when the call returns, the token is in the description.
C4_NoNegativeCaching ==
    /\ \A k \in 1..Len(store) :
          parseSingleToken(IF startsWith(store[k].token, "-")
                           THEN Drop(store[k].token, 1) ELSE store[k].token) # NULL
    /\ \A r \in Reqs : \A i \in 1..Len(parseResults[r]) :
          parseSingleToken(IF startsWith(TokenAt(r, i), "-")
                           THEN Drop(TokenAt(r, i), 1) ELSE TokenAt(r, i)) = NULL
          => /\ parseResults[r][i] = NULL
             /\ EntriesFor(TokenAt(r, i)) = {}
             /\ pc[r] = "done" => Infix(TokenAt(r, i), result[r].parseResult.desc)

\* a call has returned whose instruction holds a token that does not compile
C4_Witness ==
    \E r \in Reqs : \E i \in 1..Len(parseResults[r]) :
        /\ pc[r] = "done"
        /\ Missed(r, i)
        /\ parseResults[r][i] = NULL
        /\ Len(store) > 0

\* C5: what a call returns for a token read from the store (cache warm) is
\* what compiling and inserting that token returns (cache cold), so two calls
\* on the same instruction return the same stage list and the same partition.
C5_ColdWarmIdentical ==
    /\ \A r \in Reqs : \A i \in 1..Len(parseResults[r]) :
          (pc[r] = "done" /\ ~Missed(r, i))
          => parseResults[r][i] = docToCreate(TokenAt(r, i), tokens[r][i].exclude)
    /\ \A r1 \in Reqs : \A r2 \in Reqs :
          (pc[r1] = "done" /\ pc[r2] = "done" /\ input[r1] = input[r2])
          => result[r1] = result[r2]

\* one call compiled and inserted a token, another read the same token back
C5_Witness ==
    \E r1 \in Reqs : \E r2 \in Reqs :
      \E i \in 1..Len(parseResults[r1]) : \E j \in 1..Len(parseResults[r2]) :
        /\ pc[r1] = "done" /\ pc[r2] = "done"
        /\ input[r1] = input[r2]
        /\ TokenAt(r1, i) = TokenAt(r2, j)
        /\ Missed(r1, i) /\ IsDoc(parseResults[r1][i])
        /\ ~Missed(r2, j)

\* the stages of the tokens that compile, in token order
RECURSIVE ExpectedStages(_)
ExpectedStages(tks) ==
    IF Len(tks) = 0 THEN <<>>
    ELSE LET d == docToCreate(tks[1].tokenStr, tks[1].exclude)
         IN  (IF d = NULL THEN <<>> ELSE <<d.matchStage>>) \o ExpectedStages(Tail(tks))

\* C6: the stage list a call returns holds the stages of its compiled tokens
\* in token order, whatever the order in which the tasks were answered.
C6_StageOrderPreserved ==
    \A r \in Reqs :
        (pc[r] = "done" /\ Len(trim(input[r])) > 0)
        => result[r].pipeline = ExpectedStages(tokens[r])

\* a call returned two different stages after its second write was answered first
C6_Witness ==
    \E r \in Reqs :
        /\ pc[r] = "done"
        /\ outOfOrder[r]
        /\ Len(result[r].pipeline) = 2
        /\ result[r].pipeline[1] # result[r].pipeline[2]

FieldNames == {"keys", "items", "lines", "brands"}

ListNames == {"include", "exclude"}

PatternCount(pr) ==
    Len(pr.keys.include) + Len(pr.keys.exclude) + Len(pr.items.include) + Len(pr.items.exclude)
    + Len(pr.lines.include) + Len(pr.lines.exclude) + Len(pr.brands.include) + Len(pr.brands.exclude)

\* C7: of the parts the tokenizer extracts from the instruction, those that
\* compile are each one pattern in the list of their field, and the others are
\* each once in the description: the pattern count and the description length
\* account for every part exactly once.
C7_EveryTokenInOnePlace ==
    \A r \in Reqs :
        pc[r] = "done"
        => LET parts == matchParts(input[r])
               pr == result[r].parseResult
               body(p) == IF startsWith(p, "-") THEN Drop(p, 1) ELSE p
               \* per part: the document it compiles to, or NULL
               docs == [k \in 1..Len(parts) |->
                          IF isLikelyDynamic(body(parts[k]))
                          THEN docToCreate(parts[k], startsWith(parts[k], "-"))
                          ELSE NULL]
               compiled == {k \in 1..Len(parts) : docs[k] # NULL}
               left == {k \in 1..Len(parts) : docs[k] = NULL}
               leftLen == LET RECURSIVE sum(_)
                              sum(k) == IF k = 0 THEN 0
                                        ELSE sum(k - 1) + (IF k \in left THEN Len(parts[k]) ELSE 0)
                          IN  sum(Len(parts))
           IN  /\ PatternCount(pr) = Cardinality(compiled)
               /\ \A f \in FieldNames : \A l \in ListNames :
                     Len(pr[f][l]) = Cardinality({k \in compiled :
                                         docs[k].field = f /\ docs[k].type = l})
               /\ \A k \in compiled :
                     \E n \in 1..Len(pr[docs[k].field][docs[k].type]) :
                         pr[docs[k].field][docs[k].type][n] =
                             patternDataToPattern(docs[k].patternData)
               /\ Len(pr.desc) = leftLen + (IF left = {} THEN 0 ELSE Cardinality(left) - 1)
               /\ \A k \in left : Infix(toLowerCase(parts[k]), toLowerCase(pr.desc))

\* a call returned a pattern and a description that holds a token that did
\* not compile
C7_Witness ==
    \E r \in Reqs : \E i \in 1..Len(parseResults[r]) :
        /\ pc[r] = "done"
        /\ parseResults[r][i] = NULL
        /\ PatternCount(result[r].parseResult) = 1
        /\ Len(result[r].parseResult.desc) > 0

(***************************************************************************)
(* Properties of classification and of the compiled stages                 *)
(***************************************************************************)
Zeros(n) == [i \in 1..n |-> "0"]

\* v is raw left-padded with "0" to four characters, or raw itself when raw
\* has four characters or more
ZeroPadOf(v, raw) ==
    /\ Len(v) >= 4
    /\ IF Len(raw) < 4 THEN v = Zeros(4 - Len(raw)) \o raw ELSE v = raw

\* v is the padded form of some run of characters of the token
PaddedBoundOf(v, token) ==
    \E a \in 1..Len(token) : \E b \in a..Len(token) : ZeroPadOf(v, SubSeq(token, a, b))

\* the bounds of a pattern or of a patternData record
Bounds(p, kind) ==
    IF kind = "comparison" THEN {p.value}
    ELSE IF kind = "range" THEN {p.start, p.end}
    ELSE {}

\* C8: every comparison value and every range start and end that
\* parseSingleToken and InstructionParser.extractPatterns produce has at least
\* four characters and is a bound of the token, left-padded with "0" to
\* exactly four characters when shorter and unchanged otherwise; ">50" gives
\* "0050" and "1<>20" gives "0001" and "0020", in both parsers.
C8_PaddingInvariant ==
    pphase # "input"
    => /\ pdoc # NULL =>
             \A v \in Bounds(pdoc.patternData, pdoc.patternData.patternType) :
                 PaddedBoundOf(v, ptoken)
       /\ \A k \in 1..Len(ppatterns) :
             \A v \in Bounds(ppatterns[k], ppatterns[k].type) : PaddedBoundOf(v, ptoken)
       /\ \A op \in CmpOps : \A raw \in DigitStrings :
             ptoken = ItemsAlias \o op \o raw
             => /\ pdoc # NULL
                /\ pdoc.patternData.patternType = "comparison"
                /\ ZeroPadOf(pdoc.patternData.value, raw)
                /\ Len(ppatterns) = 1
                /\ ppatterns[1].type = "comparison"
                /\ ZeroPadOf(ppatterns[1].value, raw)
       /\ ptoken = <<">","5","0">>
             => /\ pdoc.patternData.value = <<"0","0","5","0">>
                /\ ppatterns[1].value = <<"0","0","5","0">>
       /\ ptoken = <<"1","<",">","2","0">>
             => /\ pdoc.patternData.start = <<"0","0","0","1">>
                /\ pdoc.patternData.end = <<"0","0","2","0">>
                /\ ppatterns[1].start = <<"0","0","0","1">>
                /\ ppatterns[1].end = <<"0","0","2","0">>

\* ">50" has been classified by both parsers as a comparison with "0050"
C8_Witness ==
    /\ pphase = "compiled"
    /\ ptoken = <<">","5","0">>
    /\ pdoc # NULL
    /\ pdoc.patternData.patternType = "comparison"
    /\ pdoc.patternData.value = <<"0","0","5","0">>
    /\ Len(ppatterns) = 1
    /\ ppatterns[1].value = <<"0","0","5","0">>

DigitValue(c) == FirstIndex(DigitSeq, c) - 1

\* a digit string read as an integer
RECURSIVE ToInt(_)
ToInt(ds) ==
    IF Len(ds) = 0 THEN 0
    ELSE 10 * ToInt(Take(ds, Len(ds) - 1)) + DigitValue(ds[Len(ds)])

NumericRel(op, c, v) ==
    IF op = <<">">> THEN c > v
    ELSE IF op = <<"<">> THEN c < v
    ELSE IF op = <<">", "=">> THEN c >= v
    ELSE c <= v

\* the compiled predicate of a numeric items token agrees with the numeric
\* relation on every item code, for bounds of at most maxLen digits
StringAgreesWithNumeric(maxLen) ==
    pphase = "evaluated"
    => /\ \A op \in CmpOps : \A v \in DigitStrings :
             (ptoken = ItemsAlias \o op \o v /\ Len(v) <= maxLen)
             => ppass = NumericRel(op, ToInt(pitem.code), ToInt(v))
       /\ \A st \in DigitStrings \cup FixedBounds : \A en \in DigitStrings \cup FixedBounds :
             (ptoken = ItemsAlias \o st \o RangeSep \o en /\ Len(st) <= maxLen /\ Len(en) <= maxLen)
             => ppass = (ToInt(st) <= ToInt(pitem.code) /\ ToInt(pitem.code) <= ToInt(en))

\* C9 as stated: for a numeric comparison value or range bound of any length
\* and every 4-digit item code, the compiled string predicate is true exactly
\* when the relation holds between the integers.
C9_StringAgreesWithNumericAnyLength == StringAgreesWithNumeric(MaxDigits)

\* C9: for a numeric comparison value or range bound of at most four digits
\* and every 4-digit item code, the compiled string predicate on the padded
\* bound is true exactly when the relation holds between the integers.
C9_StringAgreesWithNumericUpTo4 == StringAgreesWithNumeric(PadWidth)

\* a comparison with a bound shorter than four digits accepted an item
C9_Witness ==
    /\ pphase = "evaluated"
    /\ \E op \in CmpOps : \E v \in DigitStrings :
          /\ Len(v) < PadWidth
          /\ ToInt(v) > 0
          /\ ptoken = ItemsAlias \o op \o v
    /\ ppass

\* C10: for a token -T whose body T compiles, the document of -T has the
\* field and the pattern of T with type exclude, its stage is $match {$nor: [E]}
\* for the stage $match E of T, a document passes it exactly when it does not
\* pass the stage of T, and the stage of -items:0050 rejects the item whose
\* code is 0050.
C10_ExclusionSemantics ==
    (pphase = "evaluated" /\ startsWith(ptoken, "-"))
    => LET positive == docToCreate(Drop(ptoken, 1), FALSE)
       IN  /\ positive # NULL
           /\ pdoc.field = positive.field
           /\ pdoc.patternData = positive.patternData
           /\ pdoc.type = "exclude"
           /\ pdoc.matchStage = [match |-> [nor |-> <<positive.matchStage.match>>]]
           /\ ppass = ~Passes(positive.matchStage, pitem)
           /\ (ptoken = <<"-","i","t","e","m","s",":","0","0","5","0">>
               /\ pitem.code = <<"0","0","5","0">>) => ~ppass

\* the filter a stage wraps: Q of {$match: Q}, or of {$match: {$nor: [Q]}}
PositiveFilter(stage) ==
    IF "nor" \in DOMAIN stage.match THEN stage.match.nor[1] ELSE stage.match

\* the token under test is an items token with a bracketed prefix that compiled
PrefixedItemsCompiled ==
    /\ pphase # "input"
    /\ pdoc # NULL
    /\ pdoc.field = "items"
    /\ prefixMatch(resolveAlias(tokenBodyOf(ptoken)).tokenBody) # NULL

\* C11: the stage of an items token with a bracketed prefix P is, for every
\* pattern kind, an $and whose first argument is the case-insensitive regex
\* match of P on concat(line code, brand code) and whose other arguments are
\* leaves over the item code alone.
C11_PrefixedItemsStage ==
    PrefixedItemsCompiled
    => LET q == PositiveFilter(pdoc.matchStage)
           P == prefixMatch(resolveAlias(tokenBodyOf(ptoken)).tokenBody).keyPrefix
       IN  /\ "expr" \in DOMAIN q
           /\ q.expr.op = "$and"
           /\ Len(q.expr.args) >= 2
           /\ q.expr.args[1] = RegexExpr(KeyConcat, P)
           /\ \A k \in 2..Len(q.expr.args) : q.expr.args[k].input = CodePath


\* the path a non-items field is matched on
FieldInput(field) ==
    IF field = "keys" THEN KeyConcat
    ELSE IF field = "lines" THEN [path |-> "$key.line.code"]
    ELSE [path |-> "$key.brand.code"]

\* the token under test carries an explicit key, line or brand alias and its
\* value starts with a bracket block [x...]
NonItemsBracketed ==
    LET m == fieldMatch(tokenBodyOf(ptoken))
    IN  /\ m # NULL
        /\ aliasMap(toLowerCase(m.alias)) \in {"keys", "lines", "brands"}
        /\ startsWith(m.value, "[")
        /\ FirstIndex(m.value, "]") >= 3

C12_WitnessForced ==
    /\ pphase = "compiled"
    /\ NonItemsBracketed
    /\ pdoc # NULL
    /\ pdoc.field = "brands"
    /\ prefixMatch(fieldMatch(tokenBodyOf(ptoken)).value) # NULL


\* the inputs the leaves of an expression read
RECURSIVE LeafInputs(_)
LeafInputs(e) ==
    IF e.op = "$and" THEN UNION { LeafInputs(e.args[k]) : k \in 1..Len(e.args) }
    ELSE { e.input }

\* the input a pattern kind of a field is to be matched on without a prefix
RoutedInput(field, kind) ==
    IF field = "items"
    THEN IF kind \in {"comparison", "range"} THEN CodePath ELSE FullConcat
    ELSE FieldInput(field)

\* the patterns InstructionParser put in the lists of a field
PatternsOf(parsed, field) == parsed[field].include \o parsed[field].exclude

\* ParserPipeline compiled the token under test, which has no bracketed prefix
CompiledWithoutPrefix ==
    /\ pphase # "input"
    /\ pdoc # NULL
    /\ pdoc.patternData.keyPrefix = undefined
    /\ "extractedValue" \notin DOMAIN pdoc.patternData

\* the filter SearchPipelineBuilder builds for a pattern reads only the routed input
SearchRouted(pattern, field) ==
    /\ searchBuildExpr(pattern, field) # NULL
    /\ LeafInputs(searchBuildExpr(pattern, field).expr) = { RoutedInput(field, pattern.type) }

\* C13: without a keyPrefix, in ParserPipeline and in SearchPipelineBuilder:
\* items comparison and range leaves read the item code alone, items value and
\* regex leaves read concat(line code, brand code, item code), every kind of
\* keys pattern reads concat(line code, brand code), and every kind of lines
\* or brands pattern reads the single line-code or brand-code path.
C13_FieldRouting ==
    /\ CompiledWithoutPrefix
       => /\ "expr" \in DOMAIN PositiveFilter(pdoc.matchStage)
          /\ LeafInputs(PositiveFilter(pdoc.matchStage).expr)
               = { RoutedInput(pdoc.field, pdoc.patternData.patternType) }
    /\ pphase # "input"
       => \A f \in FieldNames : \A k \in 1..Len(PatternsOf(pparsed, f)) :
             PatternsOf(pparsed, f)[k].keyPrefix = undefined
             => SearchRouted(PatternsOf(pparsed, f)[k], f)

\* an items value token without prefix compiled by both parsers
C13_Witness ==
    /\ CompiledWithoutPrefix
    /\ pdoc.field = "items"
    /\ pdoc.patternData.patternType = "value"
    /\ Len(pparsed.items.include) = 1
    /\ pparsed.items.include[1].type = "value"
    /\ pparsed.items.include[1].keyPrefix = undefined

\* a keys comparison token compiled by both parsers
C13_WitnessKeys ==
    /\ CompiledWithoutPrefix
    /\ pdoc.field = "keys"
    /\ pdoc.patternData.patternType = "comparison"
    /\ Len(pparsed.keys.include) = 1
    /\ pparsed.keys.include[1].type = "comparison"

\* the token under test is bare: no alias, and n characters of [A-Z0-9]
BareShape(lo, hi) ==
    /\ pphase # "input"
    /\ fieldMatch(tokenBodyOf(ptoken)) = NULL
    /\ IsUpperAlnum(tokenBodyOf(ptoken), lo, hi)

\* both parsers assigned the token under test to the field, and to no other
ResolvedBy(field) ==
    /\ isLikelyDynamic(tokenBodyOf(ptoken))
    /\ pdoc # NULL
    /\ pdoc.field = field
    /\ \A f \in FieldNames :
          Len(PatternsOf(pparsed, f)) = (IF f = field THEN 1 ELSE 0)
    /\ pparsed.desc = <<>>

\* C14: with no alias, a token of exactly 3 characters of [A-Z0-9] resolves to
\* lines (never to brands), one of exactly 2 to brands and one of 5 or 6 to
\* keys, in InstructionParser and in ParserPipeline.
C14_ShapeInference ==
    /\ BareShape(3, 3) => ResolvedBy("lines")
    /\ BareShape(2, 2) => ResolvedBy("brands")
    /\ BareShape(5, 6) => ResolvedBy("keys")

\* a bare 3-character token was compiled
C14_Witness ==
    /\ BareShape(3, 3)
    /\ pdoc # NULL
    /\ pdoc.field = "lines"
    /\ Len(pparsed.lines.include) = 1


\* getPipelineForInstruction returned a result for the instruction under test
PipelineReturned == iphase = "done" /\ "parseResult" \in DOMAIN ipipe

\* the token carries an explicit alias of the field
HasAliasOf(tk, field) ==
    /\ fieldMatch(tokenBodyOf(tk.tokenStr)) # NULL
    /\ aliasMap(toLowerCase(fieldMatch(tokenBodyOf(tk.tokenStr)).alias)) = field

\* the tokens of the instruction that carry an alias of the field, by flag
AliasedTokens(field, list) ==
    { k \in 1..Len(itz.tokens) :
        /\ HasAliasOf(itz.tokens[k], field)
        /\ itz.tokens[k].exclude = (list = "exclude") }

\* C15: every token alias:value (optionally preceded by -) whose alias is in
\* the alias map is assigned by getPipelineForInstruction to the include or
\* exclude list of the aliased field, whatever the shape of the value.
C15_ExplicitAliasWins ==
    PipelineReturned
    => \A f \in FieldNames : \A l \in ListNames :
          Len(ipipe.parseResult[f][l]) >= Cardinality(AliasedTokens(f, l))

\* the instruction under test is one phrase in quotes
IsQuotedPhrase == iphase = "done" /\ iinput \in QuotedPhrases

\* C16: for an instruction that is solely one quoted phrase, with no word:
\* prefix, getPipelineForInstruction returns empty lists for the four fields,
\* no stage, and a non-empty desc equal to the phrase (with or without its
\* quotes) trimmed and lower-cased.
C16_QuotedPhraseIsFreeText ==
    IsQuotedPhrase
    => /\ "parseResult" \in DOMAIN ipipe
       /\ PatternCount(ipipe.parseResult) = 0
       /\ ipipe.pipeline = <<>>
       /\ ipipe.parseResult.desc # <<>>
       /\ ipipe.parseResult.desc
            \in { toLowerCase(trim(iinput)),
                  toLowerCase(trim(SubSeq(iinput, 2, Len(iinput) - 1))) }

\* C17: the desc getPipelineForInstruction returns is lower-cased and trimmed,
\* the tokens that looked dynamic but did not compile included: it has no
\* upper-case character and no leading or trailing whitespace.
C17_DescLowerCasedAndTrimmed ==
    PipelineReturned
    => /\ ipipe.parseResult.desc = toLowerCase(ipipe.parseResult.desc)
       /\ ipipe.parseResult.desc = trim(ipipe.parseResult.desc)


\* the instruction under test has no word: prefix anywhere and was parsed
NoFieldPrefix == iphase # "input" /\ ~hasFieldPrefix(iinput)

\* a value InstructionParser gives a field to: it has the shape of a key, an
\* item, a line or a brand, or it is a comparison, a range or a regex
Resolvable(value) ==
    \/ IsUpperAlnum(value, 2, 3)
    \/ IsUpperAlnum(value, 5, 6)
    \/ itemsShape(value)
    \/ /\ Len(extractPatterns(value)) = 1
       /\ extractPatterns(value)[1].type \in {"comparison", "range", "regex"}

\* C18 as stated: when the instruction has no word: prefix anywhere, tokenize
\* returns the whole instruction as one token and that token is free text: it
\* goes to desc and no list receives a pattern.
C18_SingleTokenIsFreeText ==
    NoFieldPrefix
    => /\ itokens = << iinput >>
       /\ PatternCount(iparsed) = 0
       /\ iparsed.desc = trim(iinput)

\* C18 amended: when the instruction has no word: prefix anywhere, tokenize
\* returns the whole instruction as one token, and that token is resolved
\* like any other: if the whole instruction (without its exclusion marker)
\* has a field shape or is a comparison, range or regex, it yields exactly one
\* pattern and desc is empty; otherwise it goes whole to desc and no list
\* receives a pattern.
C18_SingleTokenResolvedWhole ==
    NoFieldPrefix
    => /\ itokens = << iinput >>
       /\ IF Resolvable(tokenBodyOf(iinput))
          THEN PatternCount(iparsed) = 1 /\ iparsed.desc = <<>>
          ELSE PatternCount(iparsed) = 0 /\ iparsed.desc = trim(iinput)

\* an instruction of several words without prefix went whole to desc
C18_Witness ==
    /\ NoFieldPrefix
    /\ includes(iinput, " ")
    /\ itokens = << iinput >>
    /\ iparsed.desc = iinput

\* the quoted aliased run of the word pool
QuotedRun == <<"b","r","a","n","d",":","\"","a"," ","b","\"">>

\* C19: a field:"quoted value" run of the instruction is one token of
\* InstructionParser.tokenize and of ParserPipeline.tokenizeInput wherever it
\* occurs, also behind the exclusion marker, and then the one token is flagged
\* exclude with the marker stripped before field and value are read.
C19_QuotedRunIsOneToken ==
    (iphase = "done" /\ Infix(QuotedRun, iinput))
    => /\ \E k \in 1..Len(itokens) : Infix(QuotedRun, itokens[k])
       /\ \E k \in 1..Len(itz.tokens) : Infix(QuotedRun, itz.tokens[k].tokenStr)
       /\ Infix(<<"-">> \o QuotedRun, iinput)
          => /\ \E k \in 1..Len(itokens) : itokens[k] = <<"-">> \o QuotedRun
             /\ \E k \in 1..Len(itz.tokens) :
                   itz.tokens[k] = [tokenStr |-> <<"-">> \o QuotedRun, exclude |-> TRUE]

\* token i of the instruction carries no recognised alias and its value
\* joined by one space with token i+1 has the item compound shape
MergeAt(i) ==
    /\ i + 1 <= Len(itokens)
    /\ parserField(tokenBodyOf(itokens[i])) = NoField
    /\ itemsShape(parserValue(itokens[i]) \o <<" ">> \o itokens[i + 1])

MergePositions == { i \in 1..(Len(itokens) - 1) : MergeAt(i) }

\* the items pattern a merge at token i is to produce
MergedPattern(i) ==
    [type |-> "value", value |-> parserValue(itokens[i]) \o <<" ">> \o itokens[i + 1],
     keyPrefix |-> undefined]

\* the number of words of a description
DescWords(d) ==
    Cardinality({ i \in 1..Len(d) : d[i] # " " /\ (i = 1 \/ d[i - 1] = " ") })

\* the items patterns whose value is a merged value
MergedItems(list) ==
    { k \in 1..Len(iparsed.items[list]) : includes(iparsed.items[list][k].value, " ") }

\* C20: when token i carries no recognised alias and its value joined by one
\* space with token i+1 has the item compound shape, exactly one items pattern
\* holding the merged value is produced, in the list token i is flagged for;
\* token i is not resolved on its own and token i+1 yields no pattern and no
\* description text: every other token yields one pattern or one description
\* word, and there are no more merged patterns than merge positions.
C20_LookAheadMerge ==
    (iphase # "input" /\ MergePositions # {})
    => /\ \A i \in MergePositions :
             \E k \in 1..Len(iparsed.items[IF startsWith(itokens[i], "-")
                                           THEN "exclude" ELSE "include"]) :
                iparsed.items[IF startsWith(itokens[i], "-")
                              THEN "exclude" ELSE "include"][k] = MergedPattern(i)
       /\ Cardinality(MergedItems("include")) + Cardinality(MergedItems("exclude"))
            = Cardinality(MergePositions)
       /\ PatternCount(iparsed) + DescWords(iparsed.desc)
            = Len(itokens) - Cardinality(MergePositions)

\* a 5-character token, a key on its own, was merged with the token after it
C20_Witness ==
    /\ iphase # "input"
    /\ \E i \in MergePositions : IsUpperAlnum(itokens[i], 5, 5)
    /\ Len(iparsed.items.include) = 1
    /\ Len(iparsed.keys.include) = 0


\* InstructionParser parsed the token under test, which has no alias prefix
\* and none of the shapes of a key, an item, a line or a brand
BareUnshaped ==
    /\ pphase # "input"
    /\ fieldMatch(tokenBodyOf(ptoken)) = NULL
    /\ ~IsUpperAlnum(tokenBodyOf(ptoken), 2, 3)
    /\ ~IsUpperAlnum(tokenBodyOf(ptoken), 5, 6)
    /\ ~itemsShape(tokenBodyOf(ptoken))
    /\ Len(ppatterns) = 1

\* C21: InstructionParser assigns a token without alias and without field
\* shape to items when its pattern is a comparison, a range or a regex, and
\* appends it to desc, and to no field, when its pattern is a literal value.
C21_DefaultField ==
    BareUnshaped
    => IF ppatterns[1].type \in {"comparison", "range", "regex"}
       THEN /\ PatternsOf(pparsed, "items") = ppatterns
            /\ PatternCount(pparsed) = 1
            /\ pparsed.desc = <<>>
       ELSE /\ PatternCount(pparsed) = 0
            /\ pparsed.desc = ptoken

\* a bare literal without shape went to desc
C21_Witness ==
    /\ BareUnshaped
    /\ ppatterns[1].type = "value"
    /\ pparsed.desc = ptoken

\* a bare regex without shape went to items
C21_WitnessRegex ==
    /\ BareUnshaped
    /\ ppatterns[1].type = "regex"
    /\ Len(pparsed.items.include) = 1

\* the body of the token under test, after alias and bracketed prefix, begins
\* with the range separator <>
BeginsWithRangeSeparator ==
    /\ pphase # "input"
    /\ Len(parserValue(ptoken)) >= 3
    /\ SubSeq(parserValue(ptoken), 1, 2) = <<"<", ">">>

\* C24: extractPatterns classifies a body by first match in the order
\* comparison, range, regex, value, and a body that begins with the range
\* separator, such as <>1000, is not a comparison pattern.
C24_RangeSeparatorIsNotComparison ==
    BeginsWithRangeSeparator
    => \A k \in 1..Len(ppatterns) : ppatterns[k].type # "comparison"


\* the fields of the parsed instruction that have a pattern, in the order
\* keys, items, lines, brands
RECURSIVE FieldsWithPatterns(_)
FieldsWithPatterns(fields) ==
    IF Len(fields) = 0 THEN <<>>
    ELSE (IF Len(PatternsOf(iparsed, fields[1])) > 0 THEN << fields[1] >> ELSE <<>>)
         \o FieldsWithPatterns(Tail(fields))

\* the compiled expressions of a list of patterns, one per pattern in order
ExprsOf(patterns, field) ==
    [k \in 1..Len(patterns) |-> searchBuildExpr(patterns[k], field)]

\* the condition holds the include patterns under $or and the exclude
\* patterns under $nor, and nothing else
ConditionOf(cond, field) ==
    /\ DOMAIN cond = (IF Len(iparsed[field].include) > 0 THEN {"or"} ELSE {})
                     \cup (IF Len(iparsed[field].exclude) > 0 THEN {"nor"} ELSE {})
    /\ "or" \in DOMAIN cond => cond.or = ExprsOf(iparsed[field].include, field)
    /\ "nor" \in DOMAIN cond => cond.nor = ExprsOf(iparsed[field].exclude, field)

\* C22: buildSearchPipeline returns no stage when no field has patterns and
\* otherwise exactly one $match stage whose $and has one condition per field
\* that has a pattern, in the order keys, items, lines, brands, each holding
\* the include patterns under $or and the exclude patterns under $nor, one
\* compiled expression per pattern in list order.
C22_OneCombinedFilter ==
    iphase # "input"
    => IF PatternCount(iparsed) = 0 THEN isearch = <<>>
       ELSE /\ Len(isearch) = 1
            /\ DOMAIN isearch[1] = {"match"}
            /\ DOMAIN isearch[1].match = {"and"}
            /\ Len(isearch[1].match.and)
                 = Len(FieldsWithPatterns(<< "keys", "items", "lines", "brands" >>))
            /\ \A j \in 1..Len(isearch[1].match.and) :
                  ConditionOf(isearch[1].match.and[j],
                              FieldsWithPatterns(<< "keys", "items", "lines", "brands" >>)[j])

\* an instruction with a keys pattern, an items pattern and an excluded
\* pattern was turned into one filter
C22_Witness ==
    /\ iphase # "input"
    /\ Len(iparsed.keys.include) > 0
    /\ Len(iparsed.items.include) > 0
    /\ Len(iparsed.brands.exclude) > 0
    /\ Len(isearch) = 1


\* the task of a slot issued an insert (pending or refused)
InsertAttempted(x) == "kind" \in DOMAIN x /\ x.kind \in {"pending", "rejected"}

\* every token of call r was returned by its batch read
AllHit(r) == Len(tokens[r]) > 0 /\ \A i \in 1..Len(tokens[r]) : ~Missed(r, i)

\* C23: a call on a non-empty instruction reads the store once, for all its
\* dynamic tokens, before any insert (what it read never changes afterwards);
\* an insert is attempted only for a token absent from what the call read, the
\* store changes only by such an insert, and a call whose tokens were all
\* returned by the read attempts none.
C23_ReadsBeforeWritesOnlyForMisses ==
    /\ [](\A r \in Reqs : \A i \in 1..Len(parseResults[r]) :
             InsertAttempted(parseResults[r][i]) => Missed(r, i))
    /\ [][ /\ \A r \in Reqs :
                 /\ (pc[r] = "idle" /\ pc'[r] = "await")
                    => docsMap'[r] = findByTokens(store, tokenKeysOf(tokens'[r]))
                 /\ pc[r] # "idle" => docsMap'[r] = docsMap[r]
           /\ store' # store
              => \E r \in Reqs : \E i \in 1..Len(parseResults[r]) :
                    /\ parseResults[r][i] = PENDING
                    /\ Missed(r, i)
                    /\ ~AllHit(r)
                    /\ Len(store') = Len(store) + 1
                    /\ store'[Len(store')].token = TokenAt(r, i) ]_vars

\* a call whose only token was in the store when it read has returned
C23_Witness ==
    \E r \in Reqs :
        /\ pc[r] = "done"
        /\ AllHit(r)
        /\ Len(store) > 0


\* the text of the token under test before its first colon
AliasText == Take(ptoken, FirstIndex(ptoken, ":") - 1)

\* the token under test is a:value for a key a of the alias map in some
\* letter case
HasMapAlias ==
    /\ pphase # "input"
    /\ FirstIndex(ptoken, ":") > 1
    /\ aliasMap(toLowerCase(AliasText)) # NoField

\* C25: for every key a of the alias map, in any letter case, the token
\* a:value resolves to the field the map gives for a, in
\* ParserPipeline.parseSingleToken and in InstructionParser.parseInstruction.
C25_EveryAliasRecognised ==
    (HasMapAlias /\ ptoken \in AliasedComparisons)
    => /\ pdoc # NULL
       /\ pdoc.field = aliasMap(toLowerCase(AliasText))
       /\ Len(PatternsOf(pparsed, aliasMap(toLowerCase(AliasText)))) = 1


\* the part of C25 that holds: the keys of the alias map made of the letters
\* a-z only are recognised, in any letter case, by both parsers
C25_UnaccentedAliasesRecognised ==
    (HasMapAlias /\ ptoken \in AliasedComparisons /\ AllIn(AliasText, WordChar))
    => /\ pdoc # NULL
       /\ pdoc.field = aliasMap(toLowerCase(AliasText))
       /\ Len(PatternsOf(pparsed, aliasMap(toLowerCase(AliasText)))) = 1


\* InstructionParser parsed the instruction of the class example
ParsedClassExample == iphase # "input" /\ iinput = ClassExample

\* C26: in an instruction that mixes prefixed tokens with a bare quoted phrase
\* containing spaces (the class example), InstructionParser takes the phrase
\* as one token and desc is the phrase without its quotes, while the prefixed
\* tokens yield keys.include = [value ABCDE], items.exclude = [comparison >
\* 1000] and nothing else.
C26_BareQuotedPhraseIsDescription ==
    ParsedClassExample
    => /\ Len(itokens) = 3
       /\ itokens[3] = <<"\"","a","d","d","i","t","i","o","n","a","l"," ","d","e","s","c","r","i","p","t","i","o","n","\"">>
       /\ iparsed.desc = <<"a","d","d","i","t","i","o","n","a","l"," ","d","e","s","c","r","i","p","t","i","o","n">>
       /\ iparsed.keys.include
            = << [type |-> "value", value |-> <<"A","B","C","D","E">>, keyPrefix |-> undefined] >>
       /\ iparsed.items.exclude
            = << [type |-> "comparison", operator |-> <<">">>, value |-> <<"1","0","0","0">>,
                  keyPrefix |-> undefined] >>
       /\ PatternCount(iparsed) = 2


\* C27: for every instruction, the parseResult getPipelineForInstruction
\* returns equals the result of new InstructionParser(instruction): the same
\* patterns in the same lists of the same fields, and the same desc.
C27_ParsersAgree ==
    PipelineReturned => ipipe.parseResult = iparsed

\* the two parsers gave the same result for an instruction with a pattern
C27_SomeAgree ==
    /\ PipelineReturned
    /\ ipipe.parseResult = iparsed
    /\ PatternCount(iparsed) > 0


\* the body is one $expr object and nothing else
IsOneExpr(body) == DOMAIN body = {"expr"}

\* the document parseAndStoreToken hands to InstructionModel.create for the
\* token under test
EntryPersisted == pphase # "input" /\ pdoc # NULL

\* C28: every entry the compiler persists has a field among keys, items, lines
\* and brands, has type exclude exactly when its token starts with "-", and
\* has a single-level $match stage whose body is one $expr object for an
\* include entry and $nor over exactly one $expr object for an exclude entry.
C28_PersistedEntryWellFormed ==
    EntryPersisted
    => /\ pdoc.token = ptoken
       /\ pdoc.field \in {"keys", "items", "lines", "brands"}
       /\ pdoc.type \in {"include", "exclude"}
       /\ (pdoc.type = "exclude") <=> startsWith(pdoc.token, "-")
       /\ DOMAIN pdoc.matchStage = {"match"}
       /\ IF pdoc.type = "include"
          THEN IsOneExpr(pdoc.matchStage.match)
          ELSE /\ DOMAIN pdoc.matchStage.match = {"nor"}
               /\ Len(pdoc.matchStage.match.nor) = 1
               /\ IsOneExpr(pdoc.matchStage.match.nor[1])

\* the field, the type and the outer $match of every persisted entry
C28_FieldAndTypeWellFormed ==
    EntryPersisted
    => /\ pdoc.field \in {"keys", "items", "lines", "brands"}
       /\ (pdoc.type = "exclude") <=> startsWith(pdoc.token, "-")
       /\ DOMAIN pdoc.matchStage = {"match"}

\* a persisted entry whose stage has a $match inside the $match
C28_NestedMatch ==
    /\ EntryPersisted
    /\ "match" \in DOMAIN PositiveFilter(pdoc.matchStage)

\* every persisted entry is well-formed or has a $match inside the $match: no
\* stage has an empty body
C28_WellFormedUnlessNested ==
    C28_PersistedEntryWellFormed \/ C28_NestedMatch


(***************************************************************************)
(* Properties of the user-session cache and of authMiddleware              *)
(***************************************************************************)
\* C29: after any sequence of setUser, getUser and deleteUser calls, getUser(id)
\* returns user data only if the most recent setUser(id) was not followed by a
\* deleteUser(id) and its expiry is not earlier than the clock reading, the
\* data being that of this setUser; and once a getUser(id) found the entry
\* expired, getUser(id) returns null until a new setUser(id).
C29_GetUserOnlyInForce ==
    clog.op = "getUser"
    => /\ clog.ret # NULL
          => /\ clog.id \in UserIds
             /\ InForce(hist[clog.id], clog.at)
             /\ clog.ret = hist[clog.id].set.data
       /\ clog.id \in UserIds
          => (hist[clog.id].expired => clog.ret = NULL)

\* getUser returned null for an entry that an earlier getUser found expired,
\* at a clock reading that is not later than the entry's expiry
C29_Witness ==
    /\ clog.op = "getUser"
    /\ clog.id \in UserIds
    /\ hist[clog.id].expired
    /\ ~hist[clog.id].deleted
    /\ hist[clog.id].set.exp >= clog.at
    /\ clog.ret = NULL

\* getUser returned the data of the most recent setUser
C29_WitnessData ==
    /\ clog.op = "getUser"
    /\ clog.ret # NULL


\* the request was let through: the user was set and next was called
LetThrough == areq.phase = "idle" /\ areq.outcome = "next"

\* C30: authMiddleware lets a request through only if the role claim of its
\* token equals the role of the user record it resolved to and the token has
\* not expired, on the cache-hit path and on the cache-miss path, for any
\* sequence of requests carrying tokens of the same user.
C30_LetThroughOnlyWithMatchingRole ==
    LetThrough
    => /\ areq.user # NULL
       /\ areq.payload.role = areq.user.role
       /\ areq.payload.exp > areq.currDate

\* on the cache-miss path a request is let through only with a role claim
\* equal to the role of the document read, and with an unexpired token
C30_MissPathChecksRoleAndExpiry ==
    (LetThrough /\ areq.path = "miss")
    => /\ areq.user = users[areq.payload.sub]
       /\ areq.payload.role = areq.user.role
       /\ areq.payload.exp > areq.currDate

\* on both paths a request is let through only with an unexpired token, and
\* with the record of the user the token names
C30_BothPathsCheckExpiry ==
    LetThrough
    => /\ areq.user # NULL
       /\ areq.user.id = areq.payload.sub
       /\ areq.payload.exp > areq.currDate

\* a request was let through on the cache-hit path with a role claim that is
\* not the role of the cached record
C30_HitWithOtherRole ==
    /\ LetThrough
    /\ areq.path = "hit"
    /\ areq.payload.role # areq.user.role

====
